---- MODULE Spec2Model ----
(***************************************************************************)
(* Yenta: record/replay mock registry, test runner, workflow DSL parser,   *)
(* graph builder and node execution contract, modelled from the Python     *)
(* sources under src/yenta.                                                *)
(***************************************************************************)
EXTENDS Integers, Sequences, FiniteSets, TLC

VARIABLES
    impl,        \* which registry class the process uses: "json" | "legacy"
    index,       \* JsonRegistry.index: mock key -> relative file path
    files,       \* mock files on disk: path -> dumped Mock record
    indexFile,   \* data/mocks/index.json on disk
    mocks,       \* mocks.MockRegistry.mocks: key -> response
    mockFile,    \* mocks.json on disk
    lastOp,      \* the registry operation performed last (observation)
    recorded,    \* what was recorded since the last clear (observation)
    cfg,         \* FASTMCP_AVAILABLE and the spec's global mock flags
    lastRun,     \* the last exec_async call of the runner (observation)
    workflow_spec,        \* MCPWorkflowFlow.workflow_spec: the DSL lines
    custom_node_classes,  \* MCPWorkflowFlow.custom_node_classes
    initial_input,        \* MCPWorkflowFlow.initial_input
    status,               \* new | invalid | built | running | done | failed
    connections,          \* the parsed (source, action, target, params) list
    ordered_nodes,        \* get_ordered_nodes(connections)
    start_node_name,      \* MCPWorkflowFlow.start_node_name
    nodes,                \* MCPWorkflowFlow.nodes: name -> node object
    successors,           \* per node: edge label -> successor
    shared,               \* the shared state of the run
    curr,                 \* the node the substrate is running
    phase,                \* prep | exec | post | route of the current node
    prep_res,             \* what prep_async returned
    exec_res,             \* what exec_async returned
    routing_key,          \* what post_async returned
    finalized,            \* the node finalized last (observation)
    trace,                \* the nodes run so far, in order (observation)
    lastHop,              \* the last decision of the substrate (observation)
    sharedAtPrep,         \* shared state when the current node began
    written,              \* per text line: the tuple it was written from
                          \* (observation)
    replaced,             \* what a lookup of the key recorded last returned
                          \* before that recording (observation)
    runFiles,             \* data/runs: file name -> dumped TestRun
    latest,               \* data/runs/latest.json: absent, a link or a copy
    clock,                \* the second datetime.utcnow() falls in
    saved,                \* the runs passed to save_run, in order
                          \* (observation)
    batchSpec,            \* shared["spec"]: the servers and the test cases
    pairs,                \* what prep_async returned
    results,              \* what exec_async returned so far, pair by pair
    shared_results,       \* shared["results"]
    batchState,           \* idle | loaded | running | raised | aborted |
                          \* post_raised
    retryConfig,          \* the RetryConfig of the retry_async call
    attempt,              \* the loop variable of retry_async
    attempts,             \* what each call of the wrapped function ended as
                          \* (observation)
    waits,                \* the delays slept, in order (observation)
    raisedWith,           \* the exception retry_async raised
    retryState,           \* idle | running | returned | raised
    peerIndex,            \* JsonRegistry.index of a second process on the
                          \* same data directory
    writers,              \* the processes that called save_mock
                          \* (observation)
    vnode,                \* a ValidationNode made by hand: allowed_routes,
                          \* default_route and what its validate() does
    vrun,                 \* the phases of that node: what prep_async,
                          \* exec_async and post_async returned
    STANDARD_RETRY        \* the module-level RetryConfig object of that name

regVars == <<impl, index, files, indexFile, mocks, mockFile, lastOp, recorded>>
runVars == <<cfg, lastRun>>

buildState == <<status, connections, ordered_nodes, start_node_name, nodes,
                successors>>
runState == <<shared, curr, phase, prep_res, exec_res, routing_key, finalized,
              trace, lastHop, sharedAtPrep>>
obsVars == <<written, replaced>>
histVars == <<runFiles, latest, clock, saved>>
batchVars == <<batchSpec, pairs, results, shared_results, batchState>>
retryVars == <<retryConfig, attempt, attempts, waits, raisedWith, retryState>>
peerVars == <<peerIndex, writers>>
valVars == <<vnode, vrun>>
cfgVars == <<STANDARD_RETRY>>
sideVars == <<histVars, batchVars, retryVars, peerVars, valVars, cfgVars>>
flowVars == <<workflow_spec, custom_node_classes, initial_input, buildState,
              runState, obsVars, sideVars>>

vars == <<regVars, runVars, flowVars>>

\* the workflow of the process and its observations
flowCore == <<workflow_spec, custom_node_classes, initial_input, buildState,
              runState, obsVars>>

\* what the batch of the runner, and what a retry_async call, leaves alone
besideBatch == <<flowCore, histVars, retryVars, peerVars, valVars, cfgVars>>
besideRetry ==
    <<regVars, runVars, flowCore, histVars, batchVars, peerVars, valVars,
      cfgVars>>

(***************************************************************************)
(* Bounds of the model                                                     *)
(***************************************************************************)
\* at most this many mock files on disk / entries in the legacy registry
MaxMocks == 2
\* number of distinct values of the truncated argument hash (stands for 16^8)
HashSpace == 2
\* at most this many lines in a workflow text
MaxLines == 2
\* at most this many node executions in one run
MaxSteps == 3
\* at most this many runs saved to the history
MaxRuns == 3
\* at most this many test cases in a test spec
MaxTests == 2
\* at most this many attempts configured for a retried call
MaxAttempts == 3

(***************************************************************************)
(* Values                                                                  *)
(***************************************************************************)
\* Python's None where a string is expected
None == "None"

\* Python's None where a response dict is expected
NoResponse == [kind |-> "None"]

\* a file that does not exist, and a file with the given content
Absent == <<>>
FileOf(content) == <<content>>

\* the empty dict {}
EmptyFn == [x \in {} |-> x]

\* lists over S of length at most n
SeqsUpTo(S, n) == UNION { [1..k -> S] : k \in 0..n }

\* registry.py:19-23: the three category directories created by __init__
Categories == {"tools", "resources", "prompts"}

\* categories the callers of the model save under and clear
InputCategories == {"tools", "resources"}

Tools == {"search", "echo"}
ArgKeys == {"a", "b"}
ArgVals == {"x"}
\* response dicts {"result": text}
Responses == {[kind |-> "result", text |-> "R1"],
              [kind |-> "result", text |-> "R2"]}

\* A Python dict of arguments keeps insertion order: a sequence of
\* <<key, value>> pairs with pairwise distinct keys.
ArgDicts ==
    { s \in UNION { [1..n -> ArgKeys \X ArgVals] : n \in 0..Cardinality(ArgKeys) } :
        \A i, j \in DOMAIN s : i # j => s[i][1] # s[j][1] }

\* dict equality in Python ignores insertion order
ArgsEqual(a, b) == { a[i] : i \in DOMAIN a } = { b[i] : i \in DOMAIN b }

\* order of keys used by sort_keys=True (string order)
KeyLess(k1, k2) == k1 = "a" /\ k2 = "b"

\* json.dumps(args, sort_keys=True): the pairs in ascending key order
RECURSIVE SortPairs(_)
SortPairs(S) ==
    IF S = {} THEN <<>>
    ELSE LET m == CHOOSE p \in S : \A q \in S : q = p \/ KeyLess(p[1], q[1])
         IN  <<m>> \o SortPairs(S \ {m})

InsertionOrderJson(args) == args
CanonicalJson(args) == SortPairs({ args[i] : i \in DOMAIN args })

\* weight of one pair in the digest
PairCode(p) ==
    (IF p[1] = "a" THEN 1 ELSE 3) + (IF p[2] = "x" THEN 0 ELSE 1)

\* the digest of the canonical JSON text before truncation
RECURSIVE Digest(_)
Digest(s) ==
    IF s = <<>> THEN 0 ELSE PairCode(Head(s)) + 5 * Digest(Tail(s))

\* registry.py _hash_args: md5 of the canonical JSON cut to 8 hex digits
HashArgs(args) == Digest(CanonicalJson(args)) % HashSpace

\* a key built from the arguments in the order they were written
GetMockKeyUnsorted(category, tool, args) == <<category, tool, args>>

\* registry.py _get_mock_key: f"{category}:{tool}:{args_json}"
GetMockKey(category, tool, args) == <<category, tool, CanonicalJson(args)>>

\* registry.py save_mock: mocks_dir / category / f"{tool}_{args_hash}.json"
MockPath(category, tool, args) == <<category, tool, HashArgs(args)>>

\* models.py Mock, as written by model_dump(): arguments keep their order
MockRecord(category, tool, args, response) ==
    [category |-> category, name |-> tool, arguments |-> args,
     response |-> response]

\* what a caller recorded, as the caller sees it: the category, the tool and
\* the key/value pairs of the arguments
Recording(category, tool, args) ==
    <<category, tool, { args[i] : i \in DOMAIN args }>>

\* f with key k set to v (dict item assignment)
DictSetKeepingFirst(f, k, v) ==
    [x \in DOMAIN f \cup {k} |-> IF x \in DOMAIN f THEN f[x] ELSE v]
DictSet(f, k, v) ==
    [x \in DOMAIN f \cup {k} |-> IF x = k THEN v ELSE f[x]]

(***************************************************************************)
(* JsonRegistry (registry.py)                                              *)
(***************************************************************************)
\* a mock file whose text is not JSON, and an index file whose text is not
NotJsonMock == [garbled |-> TRUE]
NotJsonIndex == <<"{", "{">>

\* registry.py load_mock; a file that cannot be parsed gives None
LoadMock(category, tool, args) ==
    LET key == GetMockKey(category, tool, args)
    IN  IF key \notin DOMAIN index THEN NoResponse
        ELSE IF index[key] \notin DOMAIN files THEN NoResponse
        ELSE IF files[index[key]] = NotJsonMock THEN NoResponse
        ELSE files[index[key]].response

\* a constructor that starts every process with an empty index
LoadIndexAfresh == EmptyFn

\* registry.py _load_index: {} when the file is missing or cannot be parsed
LoadIndex ==
    IF indexFile = Absent \/ indexFile = NotJsonIndex THEN EmptyFn
    ELSE indexFile[1]

\* JsonRegistry.__init__ in a process started on the data directory as it
\* is: the index is read from the index file
OpenRegistry ==
    /\ impl = "json"
    /\ index' = LoadIndex
    /\ UNCHANGED <<impl, files, indexFile, mocks, mockFile, lastOp, recorded>>

\* the same constructor in the second process
PeerOpenRegistry ==
    /\ impl = "json"
    /\ peerIndex' = LoadIndex
    /\ UNCHANGED <<regVars, writers>>

\* save_mock in the second process: the same file, that process's index,
\* and the index file rewritten from that index
PeerSaveMock(category, tool, args, response) ==
    LET path == MockPath(category, tool, args)
        key  == GetMockKey(category, tool, args)
    IN  /\ impl = "json"
        /\ category \in Categories
        /\ Cardinality(DOMAIN files \cup {path}) <= MaxMocks
        /\ files' = DictSet(files, path,
                            MockRecord(category, tool, args, response))
        /\ peerIndex' = DictSet(peerIndex, key, path)
        /\ indexFile' = FileOf(peerIndex')
        /\ writers' = writers \cup {"peer"}
        /\ UNCHANGED <<impl, index, mocks, mockFile, lastOp, recorded>>

\* no second process
PeerIdle ==
    /\ peerIndex = EmptyFn
    /\ writers = {}

\* damage done to the data directory from outside the program: a mock file
\* is deleted or overwritten with garbage, the index file is overwritten
\* with garbage
DeleteMockFile(path) ==
    /\ path \in DOMAIN files
    /\ files' = [p \in DOMAIN files \ {path} |-> files[p]]
    /\ UNCHANGED <<impl, index, indexFile, mocks, mockFile, lastOp, recorded>>

GarbleMockFile(path) ==
    /\ path \in DOMAIN files
    /\ files[path] # NotJsonMock
    /\ files' = [files EXCEPT ![path] = NotJsonMock]
    /\ UNCHANGED <<impl, index, indexFile, mocks, mockFile, lastOp, recorded>>

GarbleIndexFile ==
    /\ indexFile \notin {Absent, NotJsonIndex}
    /\ indexFile' = NotJsonIndex
    /\ UNCHANGED <<impl, index, files, mocks, mockFile, lastOp, recorded>>

\* registry.py has_mock_in_category
HasMockInCategory(category, tool, args) ==
    GetMockKey(category, tool, args) \in DOMAIN index

\* registry.py save_mock: write the file, set the index entry, rewrite the
\* index file (the category is one of the directories __init__ created)
SaveMock(category, tool, args, response) ==
    LET path == MockPath(category, tool, args)
        key  == GetMockKey(category, tool, args)
    IN  /\ impl = "json"
        /\ category \in Categories
        /\ Cardinality(DOMAIN files \cup {path}) <= MaxMocks
        /\ files' = DictSet(files, path,
                            MockRecord(category, tool, args, response))
        /\ index' = DictSet(index, key, path)
        /\ indexFile' = FileOf(index')
        /\ lastOp' = [op |-> "save", category |-> category, tool |-> tool,
                      args |-> args, response |-> response]
        /\ recorded' = recorded \cup {Recording(category, tool, args)}
        /\ UNCHANGED <<impl, mocks, mockFile>>

\* the files that survive clear_mocks(category): with a category only that
\* directory is emptied, without one all three are
FilesAfterClear(category) ==
    IF category # None
    THEN [p \in { q \in DOMAIN files : q[1] # category } |-> files[p]]
    ELSE [p \in { q \in DOMAIN files : q[1] \notin Categories } |-> files[p]]

\* the index clear_mocks leaves in memory
IndexAfterClear(category) == EmptyFn

\* registry.py clear_mocks
ClearMocks(category) ==
    /\ impl = "json"
    /\ files' = FilesAfterClear(category)
    /\ index' = IndexAfterClear(category)
    /\ indexFile' = FileOf(index')
    /\ lastOp' = [op |-> "clear", category |-> category, tool |-> None,
                  args |-> <<>>, response |-> NoResponse]
    /\ recorded' = {}
    /\ UNCHANGED <<impl, mocks, mockFile>>

(***************************************************************************)
(* JsonRegistry run history (registry.py)                                  *)
(***************************************************************************)
\* A spec name is a sequence of pieces of text: letters, "/" and ".yaml".
\* str.replace('.yaml', ''): every ".yaml" is removed
RECURSIVE DropYaml(_)
DropYaml(name) ==
    IF name = <<>> THEN <<>>
    ELSE IF Head(name) = ".yaml" THEN DropYaml(Tail(name))
    ELSE <<Head(name)>> \o DropYaml(Tail(name))

\* str.replace('/', '_')
SlashToUnderscore(name) ==
    [i \in DOMAIN name |-> IF name[i] = "/" THEN "_" ELSE name[i]]

\* models.py TestRun as save_run sees it: the session it belongs to, its
\* spec name and the second its timestamp falls in
TestRun(session_id, spec_name, timestamp) ==
    [session_id |-> session_id, spec_name |-> spec_name,
     timestamp |-> timestamp]

\* registry.py:135-136 f"{timestamp}_{spec_name...}.json", the timestamp
\* formatted to the second
RunFileName(run) ==
    <<run.timestamp, SlashToUnderscore(DropYaml(run.spec_name))>>

\* latest.json: not there, a symlink to a run file, or a copy of one
NoLatest == [kind |-> "absent"]
LinkTo(filename) == [kind |-> "link", to |-> filename]
CopyOf(run) == [kind |-> "copy", content |-> run]

\* no TestRun (None)
NoTestRun == [session_id |-> 0]

\* a pointer that is never moved once it is there
LatestKeepingFirst(run, can_link) ==
    IF latest # NoLatest THEN latest
    ELSE IF can_link THEN LinkTo(RunFileName(run)) ELSE CopyOf(run)

\* registry.py:142-148 latest.json is unlinked and linked to the new file;
\* where the platform refuses the symlink it becomes a copy of the file
LatestAfterSave(run, can_link) ==
    IF can_link THEN LinkTo(RunFileName(run)) ELSE CopyOf(run)

\* registry.py load_latest_run
LoadLatestRun ==
    IF latest.kind = "absent" THEN NoTestRun
    ELSE IF latest.kind = "copy" THEN latest.content
    ELSE IF latest.to \in DOMAIN runFiles THEN runFiles[latest.to]
    ELSE NoTestRun

\* order of the characters of a file name ("_" sorts before the letters)
CharRank(c) == IF c = "_" THEN 0 ELSE IF c = "a" THEN 1 ELSE 2

\* string order of two names; a name sorts after its proper prefixes, as
\* the "." of ".json" sorts before "_" and the letters
RECURSIVE NameBefore(_, _)
NameBefore(m, n) ==
    IF n = <<>> THEN FALSE
    ELSE IF m = <<>> THEN TRUE
    ELSE IF Head(m) = Head(n) THEN NameBefore(Tail(m), Tail(n))
    ELSE CharRank(Head(m)) < CharRank(Head(n))

\* order of two run file names as sorted() orders the paths: the timestamp
\* has a fixed width and comes first
FileBefore(f, g) ==
    \/ f[1] < g[1]
    \/ f[1] = g[1] /\ NameBefore(f[2], g[2])

\* sorted(self.runs_dir.glob("*.json"), reverse=True) without latest.json
RECURSIVE NewestFirst(_)
NewestFirst(F) ==
    IF F = {} THEN <<>>
    ELSE LET m == CHOOSE f \in F : \A g \in F : ~FileBefore(f, g)
         IN  <<m>> \o NewestFirst(F \ {m})

\* registry.py list_runs(limit)
ListRuns(limit) ==
    LET names == NewestFirst(DOMAIN runFiles)
    IN  [i \in 1..(IF Len(names) < limit THEN Len(names) ELSE limit) |->
            runFiles[names[i]]]

\* registry.py save_run; the run was constructed at this second or the next
SaveRun(spec_name, elapsed, can_link) ==
    LET run == TestRun(Len(saved) + 1, spec_name, clock + elapsed)
    IN  /\ impl = "json"
        /\ Len(saved) < MaxRuns
        /\ clock' = clock + elapsed
        /\ runFiles' = DictSet(runFiles, RunFileName(run), run)
        /\ latest' = LatestAfterSave(run, can_link)
        /\ saved' = Append(saved, run)

\* a data directory without runs
HistoryFresh ==
    /\ runFiles = EmptyFn
    /\ latest = NoLatest
    /\ clock = 0
    /\ saved = <<>>

(***************************************************************************)
(* MockRegistry (mocks.py)                                                 *)
(***************************************************************************)
\* mocks.py get_mock_key: json.dumps({"tool": tool, "args": args}, sort_keys=True)
LegacyMockKey(tool, args) == <<tool, CanonicalJson(args)>>

\* mocks.py get
LegacyGet(tool, args) ==
    IF LegacyMockKey(tool, args) \in DOMAIN mocks
    THEN mocks[LegacyMockKey(tool, args)] ELSE NoResponse

\* mocks.py has_mock
LegacyHasMock(tool, args) == LegacyMockKey(tool, args) \in DOMAIN mocks

\* a recording that stays in memory
LegacyRecordWithoutSave(tool, args, response) ==
    /\ impl = "legacy"
    /\ mocks' = DictSet(mocks, LegacyMockKey(tool, args), response)
    /\ lastOp' = [op |-> "record", category |-> "tools", tool |-> tool,
                  args |-> args, response |-> response]
    /\ recorded' = recorded \cup {Recording("tools", tool, args)}
    /\ UNCHANGED <<impl, index, files, indexFile, mockFile>>

\* mocks.py record
LegacyRecord(tool, args, response) ==
    /\ impl = "legacy"
    /\ Cardinality(DOMAIN mocks \cup {LegacyMockKey(tool, args)}) <= MaxMocks
    /\ mocks' = DictSet(mocks, LegacyMockKey(tool, args), response)
    /\ mockFile' = FileOf(mocks')
    /\ lastOp' = [op |-> "record", category |-> "tools", tool |-> tool,
                  args |-> args, response |-> response]
    /\ recorded' = recorded \cup {Recording("tools", tool, args)}
    /\ UNCHANGED <<impl, index, files, indexFile>>

(***************************************************************************)
(* Test runner: RunMCPTestsNode.exec_async (__init__.py)                   *)
(***************************************************************************)
\* a dict key that is not present
MockAbsent == [kind |-> "absent"]

\* strings are sequences of characters
Str_hi == <<"h", "i">>
Str_HI == <<"H", "I">>
Str_no == <<"n", "o">>
Str_result == <<"r", "e", "s", "u", "l", "t">>
Str_error == <<"e", "r", "r", "o", "r">>
Str_title == <<"t", "i", "t", "l", "e">>

\* str.lower() on one character
LowerChar(c) == IF c = "H" THEN "h" ELSE IF c = "I" THEN "i" ELSE c

\* str.lower()
Lower(str) == [i \in DOMAIN str |-> LowerChar(str[i])]

\* the Python test "sub in str" on strings
IsSubstring(sub, str) ==
    \E i \in 0..(Len(str) - Len(sub)) :
        \A j \in 1..Len(sub) : str[i + j] = sub[j]

\* the key of a one-entry response dict
ResponseKey(resp) ==
    IF resp.kind = "result" THEN Str_result
    ELSE IF resp.kind = "error" THEN Str_error
    ELSE Str_title

\* json.dumps(resp): {"key": "text"}
JsonDumps(resp) ==
    <<"{", "\"">> \o ResponseKey(resp) \o <<"\"", ":", " ", "\"">>
        \o resp.text \o <<"\"", "}">>

\* schemas.py: SCHEMA_REGISTRY
SchemaRegistry == {"ExpectedTask"}

\* model(**resp) of ExpectedTask accepts the dict
ConformsToSchema(resp) == resp.kind = "task"

\* test_case.get(field, default)
DictGet(field, default) == IF field = "absent" THEN default ELSE field

\* Python truth value of a flag
Truthy(flag) == flag = "True"

\* first validation step: status = "PASS" if "error" not in resp else "FAIL"
CheckError(resp) ==
    [status |-> IF resp.kind # "error" THEN "PASS" ELSE "FAIL",
     failures |-> <<>>]

\* expected_schema step
CheckSchema(v, tc, resp) ==
    IF v.status = "PASS" /\ tc.expected_schema # None
    THEN IF tc.expected_schema \notin SchemaRegistry
         THEN [status |-> "FAIL", failures |-> <<"unknown_schema">>]
         ELSE IF ConformsToSchema(resp) THEN v
         ELSE [status |-> "FAIL", failures |-> <<"schema">>]
    ELSE v

\* expected_keywords step (case-insensitive)
CheckKeywords(v, tc, resp) ==
    IF v.status = "PASS" /\ tc.expected_keywords # <<>>
    THEN LET jam == Lower(JsonDumps(resp))
             missing == { i \in DOMAIN tc.expected_keywords :
                            ~IsSubstring(Lower(tc.expected_keywords[i]), jam) }
         IN  IF missing # {}
             THEN [status |-> "FAIL", failures |-> <<"keywords">>]
             ELSE v
    ELSE v

\* a latency step that does not look at the verdict so far
CheckLatencyWhateverBefore(v, tc, latency) ==
    IF tc.max_latency # {} /\ \E m \in tc.max_latency : latency > m
    THEN [status |-> "FAIL", failures |-> <<"latency">>]
    ELSE v

\* expected_metrics.max_latency_ms step; max_latency is {} when not given
CheckLatency(v, tc, latency) ==
    IF v.status = "PASS" /\ tc.max_latency # {}
    THEN IF \E m \in tc.max_latency : latency > m
         THEN [status |-> "FAIL", failures |-> <<"latency">>]
         ELSE v
    ELSE v

\* __init__.py:156-184 validation logic
Validate(tc, resp, latency) ==
    CheckLatency(CheckKeywords(CheckSchema(CheckError(resp), tc, resp),
                               tc, resp), tc, latency)

\* __init__.py:186-197 the result dict
ResultDict(tc, resp, latency, mode) ==
    LET v == Validate(tc, resp, latency)
    IN  [server |-> IF mode \in {"mock", "replay"} THEN "mock"
                    ELSE "server_path",
         status |-> v.status, response |-> resp, failures |-> v.failures,
         latency |-> latency, mode |-> mode,
         expected |-> [schema |-> tc.expected_schema,
                       keywords |-> tc.expected_keywords,
                       max_latency |-> tc.max_latency]]

\* __init__.py:110-121 the result returned when fastmcp is not installed
NotInstalledResult ==
    [server |-> "server_path", status |-> "FAIL",
     response |-> [kind |-> "error", text |-> Str_no],
     failures |-> <<"pip install fastmcp">>, latency |-> 0, mode |-> "error",
     expected |-> EmptyFn]

\* effective flags (per-test overrides global)
UseMocksGlobalOnly(tc) == cfg.use_mocks
UseMocks(tc) == DictGet(tc.use_mocks, cfg.use_mocks)
RecordMocksAlways(tc) == "True"
RecordMocks(tc) == DictGet(tc.record_mocks, cfg.record_mocks)

\* __init__.py:94 branch 1: inline mock
TakesInline(tc) == Truthy(UseMocks(tc)) /\ tc.mock # MockAbsent

\* __init__.py:101 branch 2: replay from the registry
TakesReplay(tc) ==
    /\ ~TakesInline(tc)
    /\ Truthy(UseMocks(tc))
    /\ LegacyHasMock(tc.tool, tc.args)

\* __init__.py:108 branch 3: real call
TakesReal(tc) == ~TakesInline(tc) /\ ~TakesReplay(tc)

\* what the server does with a call
Outcomes ==
    { [kind |-> "ok", text |-> t, latency |-> l] :
        t \in {Str_hi, Str_no}, l \in {10} }
    \cup {[kind |-> "timeout", text |-> <<>>, latency |-> 50],
          [kind |-> "raise", text |-> <<>>, latency |-> 10]}

NoCall == [kind |-> "none", text |-> <<>>, latency |-> 0]

\* the server answers, and its answer reports a tool error: call_tool
\* returns a result whose content carries the error text
ToolErrorPayload == [kind |-> "ok", text |-> <<"b", "a", "d">>, latency |-> 10]

\* what a call can end as
ServerAnswers == Outcomes \cup {ToolErrorPayload}

\* observation of one exec_async call
RunRecord(tc, calls, reads, raised, result) ==
    [phase |-> "done", flag |-> tc.use_mocks, record |-> tc.record_mocks,
     mock |-> tc.mock,
     hit |-> LegacyHasMock(tc.tool, tc.args),
     stored |-> LegacyGet(tc.tool, tc.args),
     calls |-> calls, reads |-> reads, raised |-> raised, result |-> result]

NoResult == [mode |-> "none"]

\* RunMCPTestsNode.exec_async for one (server, test) pair; out is what the
\* server does if it is called
ExecAsync(tc, out) ==
    /\ impl = "legacy"
    /\ IF TakesInline(tc)
       THEN /\ out = NoCall
            /\ IF tc.mock = NoResponse
               THEN \* resp is None: '"error" not in resp' raises TypeError
                    lastRun' = RunRecord(tc, 0, 0, TRUE, NoResult)
               ELSE lastRun' = RunRecord(tc, 0, 0, FALSE,
                                         ResultDict(tc, tc.mock, 0, "mock"))
            /\ UNCHANGED <<mocks, mockFile, lastOp, recorded>>
       ELSE IF TakesReplay(tc)
       THEN /\ out = NoCall
            /\ lastRun' = RunRecord(tc, 0, 2, FALSE,
                   ResultDict(tc, LegacyGet(tc.tool, tc.args), 0, "replay"))
            /\ UNCHANGED <<mocks, mockFile, lastOp, recorded>>
       ELSE LET reads == IF Truthy(UseMocks(tc)) THEN 1 ELSE 0
            IN  IF ~cfg.fastmcp
                THEN /\ out = NoCall
                     /\ lastRun' = RunRecord(tc, 0, reads, FALSE,
                                             NotInstalledResult)
                     /\ UNCHANGED <<mocks, mockFile, lastOp, recorded>>
                ELSE /\ out \in ServerAnswers
                     /\ IF out.kind = "ok"
                        THEN LET resp == [kind |-> "result", text |-> out.text]
                                 mode == IF Truthy(RecordMocks(tc))
                                         THEN "recorded" ELSE "real"
                             IN  /\ lastRun' = RunRecord(tc, 1, reads, FALSE,
                                        ResultDict(tc, resp, out.latency, mode))
                                 /\ IF Truthy(RecordMocks(tc))
                                    THEN LegacyRecord(tc.tool, tc.args, resp)
                                    ELSE UNCHANGED <<mocks, mockFile, lastOp,
                                                     recorded>>
                        ELSE /\ lastRun' = RunRecord(tc, 1, reads, FALSE,
                                    ResultDict(tc,
                                        [kind |-> "error", text |-> Str_no],
                                        out.latency, "error"))
                             /\ UNCHANGED <<mocks, mockFile, lastOp, recorded>>
    /\ UNCHANGED <<impl, index, files, indexFile, cfg>>

(***************************************************************************)
(* Test runner: the batch of RunMCPTestsNode (__init__.py)                 *)
(***************************************************************************)
\* the value under a key of the spec dict: the key is not there, it holds
\* None, or it holds a value
NoKey == [kind |-> "absent"]
Null == [kind |-> "None"]
Value(v) == [kind |-> "value", v |-> v]

\* what looking for the servers ends as
NoServers == [kind |-> "ValueError"]

\* one element of the list prep_async returns
Pair(server_path, test) == [server_path |-> server_path, test |-> test]

\* __init__.py:71-76 [... for s in servers for t in tests]
Product(servers, tests) ==
    [k \in 1..(Len(servers) * Len(tests)) |->
        Pair(servers[((k - 1) \div Len(tests)) + 1],
             tests[((k - 1) % Len(tests)) + 1])]

\* __init__.py:59-64 the servers prep_async iterates over: the value under
\* "mcp_servers" when the key is there, else the one under "mcp_server"
ServersOf(spec) ==
    IF spec.mcp_servers # NoKey THEN spec.mcp_servers
    ELSE IF spec.mcp_server # NoKey
         THEN IF spec.mcp_server = Null THEN Value(<<None>>)
              ELSE Value(<<spec.mcp_server.v>>)
    ELSE NoServers

\* prep_async raises: there is no key (ValueError), or the list
\* comprehension iterates over None (TypeError)
PrepRaises(spec) == ServersOf(spec) \in {NoServers, Null}

\* RunMCPTestsNode.prep_async
BatchPrepAsync ==
    /\ batchState = "loaded"
    /\ IF PrepRaises(batchSpec)
       THEN /\ batchState' = "raised"
            /\ pairs' = <<>>
       ELSE /\ batchState' = "running"
            /\ pairs' = Product(ServersOf(batchSpec).v, batchSpec.custom_tests)
    /\ UNCHANGED <<batchSpec, results, shared_results>>

\* the result of one pair, with what the server did for it
PairResult(pair, out, result) ==
    [server_path |-> pair.server_path, test |-> pair.test, out |-> out,
     result |-> result]

\* the substrate calls exec_async on the pairs in order and collects what it
\* returns; an exception out of exec_async ends the batch
BatchExecAsync(out) ==
    /\ batchState = "running"
    /\ Len(results) < Len(pairs)
    /\ ExecAsync(pairs[Len(results) + 1].test, out)
    /\ IF lastRun'.raised
       THEN /\ batchState' = "raised"
            /\ results' = results
       ELSE /\ batchState' = "running"
            /\ results' = Append(results,
                   PairResult(pairs[Len(results) + 1], out, lastRun'.result))
    /\ UNCHANGED <<batchSpec, pairs, shared_results>>

\* RunMCPTestsNode.post_async, called with the results of all pairs: it
\* stores them in the shared state and stops at the NameError of line 202
\* (the module defines no logger); the TestRun of line 207 is not defined
\* either and mocks.MockRegistry has no save_run
BatchPostAsync ==
    /\ batchState = "running"
    /\ Len(results) = Len(pairs)
    /\ shared_results' = results
    /\ batchState' = "post_raised"
    /\ UNCHANGED <<batchSpec, pairs, results>>

\* the process is stopped while the batch runs
BatchAbort ==
    /\ batchState = "running"
    /\ Len(results) < Len(pairs)
    /\ batchState' = "aborted"
    /\ UNCHANGED <<batchSpec, pairs, results, shared_results>>

\* LoadSpecNode.post_async: shared["spec"] = spec_dict
LoadSpec(spec) ==
    /\ batchState = "idle"
    /\ batchSpec' = spec
    /\ batchState' = "loaded"
    /\ UNCHANGED <<pairs, results, shared_results>>

\* no batch in the process
BatchIdle ==
    /\ batchSpec = EmptyFn
    /\ pairs = <<>>
    /\ results = <<>>
    /\ shared_results = <<>>
    /\ batchState = "idle"


(***************************************************************************)
(* Retry controller (retry_logic.py). Delays are whole seconds.            *)
(***************************************************************************)
\* the failures a wrapped call can raise, by class: asyncio.TimeoutError,
\* ConnectionError, OSError, ValueError, and CancelledError, which is not
\* an Exception
FailureKinds == {"TimeoutError", "ConnectionError", "OSError", "ValueError",
                 "CancelledError"}

\* the classes a failure is an instance of (ConnectionError is an OSError)
ClassesOf(kind) ==
    IF kind = "ConnectionError" THEN {"ConnectionError", "OSError"}
    ELSE {kind}

\* retry_logic.py:26-30 the allow-list when none, or an empty one, is given
DefaultRetryable == {"TimeoutError", "ConnectionError", "OSError"}

\* RetryConfig.__init__
RetryConfig(max_attempts, base_delay, max_delay, exponential_base, jitter, retryable_exceptions) ==
    [max_attempts |-> max_attempts, base_delay |-> base_delay,
     max_delay |-> max_delay, exponential_base |-> exponential_base,
     jitter |-> jitter,
     retryable_exceptions |->
        IF retryable_exceptions = {} THEN DefaultRetryable
        ELSE retryable_exceptions]

\* a check that takes every failure for retryable
RetriesEveryException(kind, retryable_types) == TRUE

\* is_retryable_exception: isinstance against any type of the list
IsRetryableException(kind, retryable_types) ==
    ClassesOf(kind) \cap retryable_types # {}

\* b ** n
RECURSIVE Pow(_, _)
Pow(b, n) == IF n = 0 THEN 1 ELSE b * Pow(b, n - 1)

\* min(a, b)
Min(a, b) == IF a < b THEN a ELSE b

\* a delay that is not capped
DelayUncapped(k, config) ==
    config.base_delay * Pow(config.exponential_base, k - 1)

\* calculate_delay before the jitter: lines 38-39
Delay(k, config) ==
    Min(config.base_delay * Pow(config.exponential_base, k - 1),
        config.max_delay)

\* calculate_delay: with jitter the delay is scaled by a factor drawn from
\* [0.5, 1.5]; the whole seconds of that interval stand for it
CalculateDelay(k, config) ==
    LET delay == Delay(k, config)
    IN  IF config.jitter
        THEN { d \in 0..(2 * delay) : delay <= 2 * d /\ 2 * d <= 3 * delay }
        ELSE {delay}

\* what an attempt ends as
Success == "success"

\* no exception
NoFailure == "none"

\* retry_async is called with a configuration
RetryAsync(config) ==
    /\ retryState = "idle"
    /\ retryConfig' = config
    /\ attempt' = 1
    /\ retryState' = "running"
    /\ UNCHANGED <<attempts, waits, raisedWith>>

\* one iteration of the loop of retry_async: the call, and on a failure
\* the decision to raise or to sleep and go on
RetryAttempt(outcome) ==
    /\ retryState = "running"
    /\ attempt <= retryConfig.max_attempts
    /\ attempts' = Append(attempts, outcome)
    /\ IF outcome = Success
       THEN /\ retryState' = "returned"
            /\ UNCHANGED <<waits, raisedWith, attempt>>
       ELSE IF outcome = "CancelledError"
       THEN \* not an Exception: the except clause does not catch it
            /\ retryState' = "raised"
            /\ raisedWith' = outcome
            /\ UNCHANGED <<waits, attempt>>
       ELSE IF ~IsRetryableException(outcome,
                                     retryConfig.retryable_exceptions)
       THEN /\ retryState' = "raised"
            /\ raisedWith' = outcome
            /\ UNCHANGED <<waits, attempt>>
       ELSE IF attempt = retryConfig.max_attempts
       THEN /\ retryState' = "raised"
            /\ raisedWith' = outcome
            /\ UNCHANGED <<waits, attempt>>
       ELSE /\ \E delay \in CalculateDelay(attempt, retryConfig) :
                  waits' = Append(waits, delay)
            /\ attempt' = attempt + 1
            /\ retryState' = "running"
            /\ UNCHANGED raisedWith
    /\ UNCHANGED retryConfig

\* retry_logic.py:94 the loop ended without a call (max_attempts below 1):
\* raise last_exception, which is None, is a TypeError
RetryNoAttempt ==
    /\ retryState = "running"
    /\ attempt > retryConfig.max_attempts
    /\ retryState' = "raised"
    /\ raisedWith' = "TypeError"
    /\ UNCHANGED <<retryConfig, attempts, waits, attempt>>

\* retry_logic.py:123 STANDARD_RETRY as the module creates it
StandardRetry == RetryConfig(3, 1, 30, 2, TRUE, {})

\* the module has been imported and nothing has been called
PredefinedFresh == STANDARD_RETRY = StandardRetry

\* the config argument of retryable(): None, or the object STANDARD_RETRY
ConfigArguments == {"None", "STANDARD_RETRY"}

\* retry_logic.py:112 retry_config = config or RetryConfig(): the object
\* passed, or a new one with the defaults
ConfigOrNew(config) ==
    IF config = "STANDARD_RETRY" THEN STANDARD_RETRY
    ELSE RetryConfig(3, 1, 60, 2, TRUE, {})

\* the wrapper of a function decorated with
\* retryable(config, retryable_exceptions): a non-empty list is assigned to
\* the retryable_exceptions of retry_config, which is the object passed as
\* config when one was passed, then retry_async runs with retry_config
Wrapper_retryable(config, retryable_exceptions) ==
    LET retry_config ==
          IF retryable_exceptions # {}
          THEN [ConfigOrNew(config) EXCEPT
                    !.retryable_exceptions = retryable_exceptions]
          ELSE ConfigOrNew(config)
    IN  /\ STANDARD_RETRY' = IF config = "STANDARD_RETRY" THEN retry_config
                             ELSE STANDARD_RETRY
        /\ RetryAsync(retry_config)

\* the caller has the result or the exception of retry_async and goes on
RetryOverAndOut ==
    /\ retryState \in {"returned", "raised"}
    /\ retryState' = "idle"
    /\ attempt' = 0
    /\ attempts' = <<>>
    /\ waits' = <<>>
    /\ raisedWith' = NoFailure
    /\ UNCHANGED retryConfig

\* no retry_async call in the process
RetryIdle ==
    /\ retryConfig = RetryConfig(1, 1, 1, 1, FALSE, {})
    /\ attempts = <<>>
    /\ waits = <<>>
    /\ attempt = 0
    /\ raisedWith = NoFailure
    /\ retryState = "idle"

(***************************************************************************)
(* Workflow DSL: WorkflowParser (parser.py)                                *)
(***************************************************************************)
\* the terminal sentinel
Complete == "complete"

\* params that are None (a parsed params list is never empty)
NoParams == <<>>

\* the elements of a list
Range(s) == { s[i] : i \in DOMAIN s }

\* A workflow line is given by what the parser reads from it: its form and,
\* for an edge line, the five groups of the regular expression.
Line(form, source, sparams, action, target, tparams) ==
    [form |-> form, source |-> source, sparams |-> sparams,
     action |-> action, target |-> target, tparams |-> tparams]

\* a line that is empty after strip()
BlankLine == Line("blank", None, NoParams, None, None, NoParams)

\* a line that contains ">>" and that the regular expression does not match
UnmatchedLine == Line("unmatched", None, NoParams, None, None, NoParams)

\* a line without ">>": the whole line is the tool name
BareLine(name) == Line("bare", name, NoParams, None, None, NoParams)

\* source[sparams] - 'action' >> target[tparams]
EdgeLine(source, sparams, action, target, tparams) ==
    Line("edge", source, sparams, action, target, tparams)

\* one (source, action, target, params) tuple
Connection(source, action, target, params) ==
    [source |-> source, action |-> action, target |-> target,
     params |-> params]

\* parser.py:62-68 target params win, source params are the fallback
ParamsOf(line) ==
    IF line.tparams # NoParams THEN line.tparams
    ELSE IF line.sparams # NoParams THEN line.sparams
    ELSE NoParams

\* parser.py:25-70 the connections one line contributes
ParseLine(line) ==
    IF line.form = "blank" THEN <<>>
    ELSE IF line.form = "bare"
         THEN <<Connection(line.source, None, Complete, NoParams)>>
    ELSE IF line.form = "edge"
         THEN <<Connection(line.source, line.action, line.target,
                           ParamsOf(line))>>
    ELSE <<>>

\* WorkflowParser.parse_workflow
RECURSIVE ParseWorkflow(_)
ParseWorkflow(lines) ==
    IF lines = <<>> THEN <<>>
    ELSE ParseLine(Head(lines)) \o ParseWorkflow(Tail(lines))

\* parser.py:80-87 one iteration of the loop of get_ordered_nodes
AddEndpoints(found, c) ==
    LET withSource == IF c.source \in Range(found) THEN found
                      ELSE Append(found, c.source)
    IN  IF c.target # Complete /\ c.target \notin Range(withSource)
        THEN Append(withSource, c.target)
        ELSE withSource

RECURSIVE OrderedFrom(_, _)
OrderedFrom(conns, found) ==
    IF conns = <<>> THEN found
    ELSE OrderedFrom(Tail(conns), AddEndpoints(found, Head(conns)))

\* WorkflowParser.get_ordered_nodes
GetOrderedNodes(conns) == OrderedFrom(conns, <<>>)

\* WorkflowParser.get_start_node (the caller has checked conns is not empty)
GetStartNodeLast(conns) == conns[Len(conns)].source
GetStartNode(conns) == conns[1].source

\* a lookup that returns the params of the last edge into the node
GetNodeParamsOfLastEdge(conns, node_name) ==
    LET hits == { i \in DOMAIN conns :
                    conns[i].target = node_name /\ conns[i].params # NoParams }
    IN  IF hits = {} THEN NoParams
        ELSE conns[CHOOSE i \in hits : \A j \in hits : j <= i].params

\* WorkflowParser.get_node_params: params of the first edge into the node
\* that carries params
GetNodeParams(conns, node_name) ==
    LET hits == { i \in DOMAIN conns :
                    conns[i].target = node_name /\ conns[i].params # NoParams }
    IN  IF hits = {} THEN NoParams
        ELSE conns[CHOOSE i \in hits : \A j \in hits : i <= j].params

(***************************************************************************)
(* Workflow DSL, text level: what parse_workflow reads from the characters *)
(* of a line (parser.py). A text is a sequence of characters.              *)
(***************************************************************************)
\* the characters \w matches, among those the model writes
WordChars == {"f", "g", "o", "u", "v", "k"}

\* ['\"]
Quotes == {"'", "\""}

\* the text "complete"
CompleteText == <<"c", "o", "m", "p", "l", "e", "t", "e">>

\* an action that is None (a matched action is never empty)
NoText == <<>>

\* str.strip()
RECURSIVE LStrip(_)
LStrip(t) == IF t # <<>> /\ Head(t) = " " THEN LStrip(Tail(t)) ELSE t

RECURSIVE RStrip(_)
RStrip(t) ==
    IF t # <<>> /\ t[Len(t)] = " " THEN RStrip(SubSeq(t, 1, Len(t) - 1)) ELSE t

Strip(t) == RStrip(LStrip(t))

\* '>>' in line
HasArrow(t) == \E i \in 1..(Len(t) - 1) : t[i] = ">" /\ t[i + 1] = ">"

\* the character at a position, "" past the end
At(t, p) == IF p \in DOMAIN t THEN t[p] ELSE ""

\* \w+ from position p, greedy: the position after the run of word characters
RECURSIVE WordEnd(_, _)
WordEnd(t, p) == IF At(t, p) \in WordChars THEN WordEnd(t, p + 1) ELSE p

\* \s* from position p
RECURSIVE SkipSpaces(_, _)
SkipSpaces(t, p) == IF At(t, p) = " " THEN SkipSpaces(t, p + 1) ELSE p

\* the position of the first "]" at or after p, 0 when there is none
RECURSIVE CloseBracket(_, _)
CloseBracket(t, p) ==
    IF p > Len(t) THEN 0
    ELSE IF t[p] = "]" THEN p
    ELSE CloseBracket(t, p + 1)

\* an optional group of the regular expression: did not take part, or
\* matched a value and ended before position next
NoGroup == [ok |-> FALSE, value |-> <<>>, next |-> 0]
Group(value, next) == [ok |-> TRUE, value |-> value, next |-> next]

\* (?:\[([^\]]+)\])? at position p
BracketGroup(t, p) ==
    IF At(t, p) # "[" THEN NoGroup
    ELSE LET q == CloseBracket(t, p + 1)
         IN  IF q > p + 1 THEN Group(SubSeq(t, p + 1, q - 1), q + 1)
             ELSE NoGroup

\* (?:\s*-\s*['\"](\w+)['\"])? at position p
ActionGroup(t, p) ==
    LET d == SkipSpaces(t, p)
        q == SkipSpaces(t, d + 1)
        w == WordEnd(t, q + 1)
    IN  IF At(t, d) = "-" /\ At(t, q) \in Quotes /\ w > q + 1
           /\ At(t, w) \in Quotes
        THEN Group(SubSeq(t, q + 1, w - 1), w + 1)
        ELSE NoGroup

\* \s*>>\s* at position p: the position after it, 0 when it does not match
ArrowEnd(t, p) ==
    LET a == SkipSpaces(t, p)
    IN  IF At(t, a) = ">" /\ At(t, a + 1) = ">" THEN SkipSpaces(t, a + 2)
        ELSE 0

\* the result of re.match(pattern, line); the match need not reach the end
\* of the line
NoMatch ==
    [ok |-> FALSE, source |-> <<>>, sparams |-> NoGroup, action |-> NoGroup,
     target |-> <<>>, tparams |-> NoGroup, end |-> 0]

Match(t) ==
    LET s1 == WordEnd(t, 1)
        g2 == BracketGroup(t, s1)
        p2 == IF g2.ok THEN g2.next ELSE s1
        g3 == ActionGroup(t, p2)
        p3 == IF g3.ok THEN g3.next ELSE p2
        p4 == ArrowEnd(t, p3)
        s5 == WordEnd(t, p4)
        g5 == BracketGroup(t, s5)
        e  == IF g5.ok THEN g5.next ELSE s5
    IN  IF s1 > 1 /\ p4 > 0 /\ s5 > p4
        THEN [ok |-> TRUE, source |-> SubSeq(t, 1, s1 - 1), sparams |-> g2,
              action |-> g3, target |-> SubSeq(t, p4, s5 - 1),
              tparams |-> g5, end |-> e]
        ELSE NoMatch

\* the position of the first "," of a text, 0 when there is none
RECURSIVE CommaFrom(_, _)
CommaFrom(t, p) ==
    IF p > Len(t) THEN 0
    ELSE IF t[p] = "," THEN p
    ELSE CommaFrom(t, p + 1)

\* str.split(',')
RECURSIVE Split(_)
Split(t) ==
    LET i == CommaFrom(t, 1)
    IN  IF i = 0 THEN <<t>>
        ELSE <<SubSeq(t, 1, i - 1)>> \o Split(SubSeq(t, i + 1, Len(t)))

\* [p.strip() for p in params_str.split(',')]
ParamListUnstripped(content) == Split(content)
ParamList(content) ==
    LET pieces == Split(content)
    IN  [i \in DOMAIN pieces |-> Strip(pieces[i])]

\* parser.py:25-70 the connections one line of text contributes
ParseTextLine(line) ==
    LET t == Strip(line)
        m == Match(t)
    IN  IF t = <<>> THEN <<>>
        ELSE IF ~HasArrow(t)
             THEN <<Connection(t, NoText, CompleteText, NoParams)>>
        ELSE IF m.ok
             THEN <<Connection(m.source,
                               IF m.action.ok THEN m.action.value ELSE NoText,
                               m.target,
                               IF m.tparams.ok THEN ParamList(m.tparams.value)
                               ELSE IF m.sparams.ok
                                    THEN ParamList(m.sparams.value)
                               ELSE NoParams)>>
        ELSE <<>>

\* WorkflowParser.parse_workflow on lines of text
RECURSIVE ParseText(_)
ParseText(lines) ==
    IF lines = <<>> THEN <<>>
    ELSE ParseTextLine(Head(lines)) \o ParseText(Tail(lines))

(***************************************************************************)
(* Graph builder: MCPWorkflowFlow._build_workflow (workflow_flow.py)       *)
(***************************************************************************)
\* ''.join(word.capitalize() for word in node_name.split('_'))
PascalCase(node_name) ==
    CASE node_name = "fetch" -> "Fetch"
      [] node_name = "check" -> "Check"
      [] node_name = "store" -> "Store"
      [] OTHER -> "Complete"

\* MCPWorkflowFlow._is_custom_node
IsCustomNode(classes, node_name) ==
    \/ node_name \in DOMAIN classes
    \/ PascalCase(node_name) \in DOMAIN classes

\* MCPWorkflowFlow._get_custom_node_class (the base class of the class found)
GetCustomNodeClass(classes, node_name) ==
    IF node_name \in DOMAIN classes THEN classes[node_name]
    ELSE classes[PascalCase(node_name)]

\* discovered_params, required_params, optional_params = None
NotDiscovered == [known |-> FALSE, all |-> {}, required |-> {}]

\* the three fields once _discover_tool_params returned a dict (the optional
\* params are the others of all)
ParamInfo(all, required) == [known |-> TRUE, all |-> all, required |-> required]

\* MCPNode.__init__
MCPNode(next_node, explicit_params) ==
    [kind |-> "MCPNode", next_node |-> next_node,
     explicit_params |-> explicit_params, default_route |-> None,
     discovered_params |-> NotDiscovered, queries |-> 0, lookup |-> "none"]

\* ValidationNode / RoutingNode / TransformNode __init__ with the defaults
\* the builder leaves in place
CustomNode(base) ==
    [kind |-> base,
     next_node |-> IF base = "TransformNode" THEN "default" ELSE None,
     explicit_params |-> NoParams,
     default_route |-> IF base = "TransformNode" THEN None ELSE "default",
     discovered_params |-> NotDiscovered, queries |-> 0, lookup |-> "none"]

\* workflow_flow.py:175-210 the node created for ordered_nodes[i]
NodeFor(classes, conns, ordered, i) ==
    IF IsCustomNode(classes, ordered[i])
    THEN CustomNode(GetCustomNodeClass(classes, ordered[i]))
    ELSE MCPNode(IF i < Len(ordered) THEN ordered[i + 1] ELSE Complete,
                 GetNodeParams(conns, ordered[i]))

\* workflow_flow.py:174-210 self.nodes
CreateNodes(classes, conns, ordered) ==
    [name \in Range(ordered) |->
        NodeFor(classes, conns, ordered,
                CHOOSE i \in DOMAIN ordered :
                    /\ ordered[i] = name
                    /\ \A j \in DOMAIN ordered : ordered[j] = name => j <= i)]

\* the label under which an edge without action is registered
DefaultLabel == "default"

\* source - label >> target: register target as the successor of source
\* under the label, replacing an earlier successor under the same label
Connect(succ, source, label, target) ==
    [succ EXCEPT ![source] = DictSet(@, label, target)]

\* workflow_flow.py:214-227 one iteration of the wiring loop
WireEdgeIgnoringAction(succ, c) ==
    IF c.target = Complete THEN succ
    ELSE Connect(succ, c.source, DefaultLabel, c.target)
WireEdgeSkippingActions(succ, c) ==
    IF c.target = Complete \/ c.action # None THEN succ
    ELSE Connect(succ, c.source, DefaultLabel, c.target)
WireEdge(succ, c) ==
    IF c.target = Complete THEN succ
    ELSE IF c.action # None
         THEN Connect(succ, c.source, c.action, c.target)
         ELSE Connect(succ, c.source, DefaultLabel, c.target)

RECURSIVE WireFrom(_, _)
WireFrom(conns, succ) ==
    IF conns = <<>> THEN succ
    ELSE WireFrom(Tail(conns), WireEdge(succ, Head(conns)))

\* workflow_flow.py:212-227 the successors of every node after wiring
WireNodes(conns, ns) == WireFrom(conns, [name \in DOMAIN ns |-> EmptyFn])

(***************************************************************************)
(* Node execution contract: MCPNode (workflow_nodes.py), ValidationNode,   *)
(* RoutingNode, TransformNode (custom_nodes.py)                            *)
(***************************************************************************)
\* Values held in shared state and passed between the phases
NoValue == [t |-> "none"]
Dict(items) == [t |-> "dict", items |-> items]
EmptyDict == Dict(EmptyFn)
Str(s) == [t |-> "str", s |-> s]
\* a raw tool result with a content list and no model_dump
CallToolResult(text) == [t |-> "CallToolResult", text |-> text]
\* a raw tool result that has model_dump
DumpableResult(fields) == [t |-> "BaseModel", fields |-> fields]

\* f"{name}_input", f"{name}_output", "_prev_output_key"
InputKey(name) == <<name, "_input">>
OutputKey(name) == <<name, "_output">>
PrevOutputKey == <<"", "_prev_output_key">>

\* shared.get(key, {})
SharedGet(sh, key) == IF key \in DOMAIN sh THEN sh[key] ELSE EmptyDict

\* prep_async of ValidationNode, RoutingNode and TransformNode
CustomPrep(sh, name) ==
    IF InputKey(name) \in DOMAIN sh THEN sh[InputKey(name)]
    ELSE IF PrevOutputKey \in DOMAIN sh
         THEN SharedGet(sh, sh[PrevOutputKey])
    ELSE EmptyDict

\* workflow_nodes.py:147 the {"input", "routing_key"} dict of a custom node
IsWrapper(v) ==
    /\ v.t = "dict"
    /\ {"input", "routing_key"} \subseteq DOMAIN v.items

\* workflow_nodes.py:144-168 what a tool node makes of the previous output
NormalizeOutput(prev) ==
    IF IsWrapper(prev) THEN prev.items["input"]
    ELSE IF prev.t = "BaseModel" THEN Dict(prev.fields)
    ELSE IF prev.t = "CallToolResult"
         THEN Dict([k \in {"result"} |-> prev.text])
    ELSE prev

\* an input_data that prefers the previous output to the node's input key
MCPInputFromUpstreamFirst(sh, name) ==
    IF PrevOutputKey \in DOMAIN sh
    THEN NormalizeOutput(SharedGet(sh, sh[PrevOutputKey]))
    ELSE IF InputKey(name) \in DOMAIN sh THEN sh[InputKey(name)]
    ELSE EmptyDict

\* workflow_nodes.py:136-170 input_data of a tool node
MCPInput(sh, name) ==
    IF InputKey(name) \in DOMAIN sh THEN sh[InputKey(name)]
    ELSE IF PrevOutputKey \in DOMAIN sh
         THEN NormalizeOutput(SharedGet(sh, sh[PrevOutputKey]))
    ELSE EmptyDict

\* {k: v for k, v in items if k in keys}
Restrict(items, keys) == [k \in (DOMAIN items) \cap keys |-> items[k]]

\* MCPNode._auto_map_params
AutoMapParamsDroppingUnmatched(input, available) ==
    IF available = {} THEN input
    ELSE Dict(Restrict(input.items, available))
AutoMapParams(input, available) ==
    IF available = {} THEN input
    ELSE IF (DOMAIN input.items) \cap available = {} THEN input
    ELSE Dict(Restrict(input.items, available))

\* workflow_nodes.py:193 the tool schema is looked up in this prep_async
DiscoversDespiteExplicit(input, node) ==
    /\ input.t = "dict"
    /\ ~node.discovered_params.known
Discovers(input, node) ==
    /\ input.t = "dict"
    /\ node.explicit_params = NoParams
    /\ ~node.discovered_params.known

\* workflow_nodes.py:194-198 the node after _discover_tool_params returned:
\* a dict is kept, None leaves discovered_params None; queries counts the
\* list_tools requests of the node and lookup names how the last one ended
AfterDiscovery(node, found) ==
    [(IF found.how = "schema"
      THEN [node EXCEPT !.discovered_params = found.info]
      ELSE node)
        EXCEPT !.queries = @ + 1, !.lookup = found.how]

\* workflow_nodes.py:172-205 the value prep_async returns
MCPPrepResultPassingAll(input, node) ==
    IF input.t # "dict" THEN input
    ELSE IF node.explicit_params # NoParams THEN input
    ELSE IF node.discovered_params.all # {}
         THEN AutoMapParams(input, node.discovered_params.all)
    ELSE input
MCPPrepResultEmptyOnFailure(input, node) ==
    IF input.t # "dict" THEN input
    ELSE IF node.explicit_params # NoParams
         THEN Dict(Restrict(input.items, Range(node.explicit_params)))
    ELSE IF node.discovered_params.all # {}
         THEN AutoMapParams(input, node.discovered_params.all)
    ELSE EmptyDict
MCPPrepResult(input, node) ==
    IF input.t # "dict" THEN input
    ELSE IF node.explicit_params # NoParams
         THEN Dict(Restrict(input.items, Range(node.explicit_params)))
    ELSE IF node.discovered_params.all # {}
         THEN AutoMapParams(input, node.discovered_params.all)
    ELSE input

\* prep_async of every node kind only reads shared state
SharedAfterPrepConsumingInput(sh, name) ==
    [k \in (DOMAIN sh) \ {InputKey(name)} |-> sh[k]]
SharedAfterPrep(sh, name) == sh

\* How a call of _discover_tool_params ends, with the client library
\* installed: the client raises (lines 66-68), the tool is not in the list
\* (51-52), the tool has no schema properties (55, 65), or a dict is returned
\* (56-64)
ClientError == [how |-> "error", info |-> NotDiscovered]
NotListed == [how |-> "missing", info |-> NotDiscovered]
NoSchema == [how |-> "noschema", info |-> NotDiscovered]
Schema(all, required) == [how |-> "schema", info |-> ParamInfo(all, required)]

\* prep_async did not call _discover_tool_params
NoLookup == [how |-> "none", info |-> NotDiscovered]

\* the tools the server lists; call_tool of another name raises
ServerTools == {"fetch", "store"}

\* how _discover_tool_params can end for a tool name
CanEndAs(name, found) ==
    IF name \in ServerTools THEN found.how \in {"error", "noschema", "schema"}
    ELSE found.how \in {"error", "missing"}

\* the outcomes tried in the flow specifications
DiscoveryOutcomes == {ClientError, NotListed, Schema({"url"}, {"url"})}

\* routing keys a validate() or route() can return ("error" on exception)
RouteKeys == {"ok", "default", "error"}

\* what exec_async can do, per node kind
ExecOutcomes(node) ==
    IF node.kind = "MCPNode"
    THEN {[kind |-> "return", value |-> CallToolResult("page")],
          [kind |-> "return",
           value |-> DumpableResult([k \in {"url"} |-> "y"])],
          [kind |-> "raise", value |-> NoValue]}
    ELSE IF node.kind = "TransformNode"
    THEN {[kind |-> "input", value |-> NoValue],
          [kind |-> "return", value |-> Dict([k \in {"title"} |-> "t"])]}
    ELSE {[kind |-> "return", value |-> Str(k)] : k \in RouteKeys}

\* the {"input": prep_res, "routing_key": routing_key} dict
Wrapper(prep, key) ==
    Dict([k \in {"input", "routing_key"} |->
            IF k = "input" THEN prep ELSE key])

\* what post_async stores under f"{name}_output"
StoredOutput(node, prep, res) ==
    IF node.kind \in {"ValidationNode", "RoutingNode"}
    THEN Wrapper(prep, res.s)
    ELSE res

\* post_async of every node kind: shared state afterwards
SharedAfterPostWithoutCursor(sh, name, node, prep, res) ==
    IF node.kind = "TransformNode"
    THEN DictSet(sh, OutputKey(name), StoredOutput(node, prep, res))
    ELSE DictSet(DictSet(sh, OutputKey(name), StoredOutput(node, prep, res)),
                 PrevOutputKey, OutputKey(name))
SharedAfterPost(sh, name, node, prep, res) ==
    DictSet(DictSet(sh, OutputKey(name), StoredOutput(node, prep, res)),
            PrevOutputKey, OutputKey(name))

\* a finalize that answers "ok" whatever the node
PostKeyAlwaysOk(node, res) == "ok"

\* post_async of every node kind: the routing key returned
PostKey(node, res) ==
    IF node.kind = "MCPNode" THEN ""
    ELSE IF node.kind = "TransformNode" THEN node.next_node
    ELSE res.s

(***************************************************************************)
(* ValidationNode with allowed_routes (custom_nodes.py), driven phase by   *)
(* phase                                                                   *)
(***************************************************************************)
\* ValidationNode.__init__; allowed_routes is Null or Value(list), logic
\* names the validate() of the subclass
ValidationNode(allowed_routes, default_route, logic) ==
    [allowed_routes |-> allowed_routes, default_route |-> default_route,
     logic |-> logic, max_attempts |-> 0]

\* RetryHandler.__init__
RetryHandler(max_attempts) ==
    [allowed_routes |-> Value(<<"retry", "max_retries">>),
     default_route |-> "default", logic |-> "RetryHandler",
     max_attempts |-> max_attempts]

\* how a call of validate() ends
Returned(key) == [kind |-> "return", key |-> key]
Raised == [kind |-> "raise", key |-> None]

\* RetryHandler.validate: input_data.get raises on an input that is not a
\* dict; a dict without retry_count counts as 0
RetryHandlerValidate(node, input) ==
    IF input.t # "dict" THEN Raised
    ELSE LET retry_count == IF "retry_count" \in DOMAIN input.items
                            THEN input.items["retry_count"] ELSE 0
         IN  IF retry_count < node.max_attempts THEN Returned("retry")
             ELSE Returned("max_retries")

\* the keys a validate() written by a user returns in the model
UserKeys == {"retry", "ok", "default", "error"}

\* what validate() can do on an input
ValidateOutcomes(node, input) ==
    IF node.logic = "RetryHandler" THEN {RetryHandlerValidate(node, input)}
    ELSE { Returned(k) : k \in UserKeys } \cup {Raised}

\* custom_nodes.py:64 "if self.allowed_routes": a list that is not empty
ChecksRoutes(node) ==
    /\ node.allowed_routes # Null
    /\ node.allowed_routes.v # <<>>

\* ValidationNode.exec_async: a key outside a non-empty allowed_routes
\* becomes default_route, an exception becomes "error"
ValidationExec(node, outcome) ==
    IF outcome.kind = "raise" THEN "error"
    ELSE IF /\ ChecksRoutes(node)
            /\ outcome.key \notin Range(node.allowed_routes.v)
         THEN node.default_route
    ELSE outcome.key

NoValidationNode == [logic |-> "none"]
NoValidationRun == [phase |-> "idle"]

\* a ValidationNode comes to exist
NewValidationNode(node) ==
    /\ vnode = NoValidationNode
    /\ vnode' = node
    /\ vrun' = [phase |-> "made"]

\* ValidationNode.prep_async returned input
ValidationPrep(input) ==
    /\ vrun.phase \in {"made", "post"}
    /\ vrun' = [phase |-> "prep", input |-> input]
    /\ UNCHANGED vnode

\* ValidationNode.exec_async on what prep_async returned
ValidationExecAsync(outcome) ==
    /\ vrun.phase = "prep"
    /\ outcome \in ValidateOutcomes(vnode, vrun.input)
    /\ vrun' = [phase |-> "exec", input |-> vrun.input, outcome |-> outcome,
                exec_res |-> ValidationExec(vnode, outcome)]
    /\ UNCHANGED vnode

\* ValidationNode.post_async: the wrapper is stored, the key is returned
ValidationPost ==
    /\ vrun.phase = "exec"
    /\ vrun' = [phase |-> "post", input |-> vrun.input,
                outcome |-> vrun.outcome,
                stored |-> [input |-> vrun.input,
                            routing_key |-> vrun.exec_res],
                routing_key |-> vrun.exec_res]
    /\ UNCHANGED vnode

\* no hand-made ValidationNode in the process
ValidationIdle ==
    /\ vnode = NoValidationNode
    /\ vrun = NoValidationRun

(***************************************************************************)
(* Execution substrate (agora.telemetry.AuditedAsyncFlow), as the          *)
(* specification describes it                                              *)
(***************************************************************************)
\* the routing keys that select the unconditional edge
DefaultMarkers == {"", "default"}

\* the label a routing key selects
EdgeLabel(key) == IF key \in DefaultMarkers THEN DefaultLabel ELSE key

\* the node that runs after name returned key; None ends the run
GetNextNode(succ, name, key) ==
    IF EdgeLabel(key) \in DOMAIN succ[name]
    THEN succ[name][EdgeLabel(key)]
    ELSE None

(***************************************************************************)
(* Workflow operations: MCPWorkflowFlow (workflow_flow.py)                 *)
(***************************************************************************)
NoHop == [from |-> None, key |-> None, to |-> None]

\* nothing has run
NotStarted ==
    /\ shared = EmptyFn
    /\ curr = None
    /\ phase = "idle"
    /\ prep_res = NoValue
    /\ exec_res = NoValue
    /\ routing_key = None
    /\ finalized = None
    /\ trace = <<>>
    /\ lastHop = NoHop
    /\ sharedAtPrep = EmptyFn

\* MCPWorkflowFlow.__init__ before _build_workflow
NotBuilt ==
    /\ status = "new"
    /\ connections = <<>>
    /\ ordered_nodes = <<>>
    /\ start_node_name = None
    /\ nodes = EmptyFn
    /\ successors = EmptyFn

\* no workflow in the process
FlowIdle ==
    /\ workflow_spec = <<>>
    /\ custom_node_classes = EmptyFn
    /\ initial_input = EmptyFn
    /\ NotBuilt
    /\ NotStarted
    /\ written = <<>>
    /\ replaced = NoResponse
    /\ HistoryFresh
    /\ BatchIdle
    /\ RetryIdle
    /\ PeerIdle
    /\ ValidationIdle
    /\ PredefinedFresh

\* MCPWorkflowFlow.__init__, which ends with _build_workflow; an empty
\* connection list raises ValueError and no flow comes to exist
NewWorkflow(lines, classes, input) ==
    /\ status = "new"
    /\ workflow_spec' = lines
    /\ custom_node_classes' = classes
    /\ initial_input' = input
    /\ LET conns == ParseWorkflow(lines)
           ordered == GetOrderedNodes(conns)
           ns == CreateNodes(classes, conns, ordered)
       IN  IF conns = <<>>
           THEN /\ status' = "invalid"
                /\ UNCHANGED <<connections, ordered_nodes, start_node_name,
                               nodes, successors>>
           ELSE /\ status' = "built"
                /\ connections' = conns
                /\ ordered_nodes' = ordered
                /\ start_node_name' = GetStartNode(conns)
                /\ nodes' = ns
                /\ successors' = WireNodes(conns, ns)
    /\ UNCHANGED runState

\* MCPWorkflowFlow.run_async up to the first node's prep_async
RunAsync ==
    /\ status = "built"
    /\ status' = "running"
    /\ shared' = IF initial_input # EmptyFn
                 THEN DictSet(EmptyFn, InputKey(start_node_name),
                              Dict(initial_input))
                 ELSE EmptyFn
    /\ curr' = start_node_name
    /\ phase' = "prep"
    /\ trace' = <<start_node_name>>
    /\ sharedAtPrep' = shared'
    /\ UNCHANGED <<workflow_spec, custom_node_classes, initial_input,
                   connections, ordered_nodes, start_node_name, nodes,
                   successors, prep_res, exec_res, routing_key, finalized,
                   lastHop>>

\* prep_async of the current node
PrepAsync(found) ==
    /\ status = "running"
    /\ phase = "prep"
    /\ IF nodes[curr].kind = "MCPNode"
       THEN LET input == MCPInput(shared, curr)
                node == IF Discovers(input, nodes[curr])
                        THEN AfterDiscovery(nodes[curr], found)
                        ELSE nodes[curr]
            IN  /\ IF Discovers(input, nodes[curr])
                   THEN CanEndAs(curr, found)
                   ELSE found = NoLookup
                /\ nodes' = [nodes EXCEPT ![curr] = node]
                /\ prep_res' = MCPPrepResult(input, node)
       ELSE /\ found = NoLookup
            /\ nodes' = nodes
            /\ prep_res' = CustomPrep(shared, curr)
    /\ shared' = SharedAfterPrep(shared, curr)
    /\ phase' = "exec"
    /\ UNCHANGED <<workflow_spec, custom_node_classes, initial_input, status,
                   connections, ordered_nodes, start_node_name, successors,
                   curr, exec_res, routing_key, finalized, trace, lastHop,
                   sharedAtPrep>>

\* exec_async of the current node; an exception ends the run
ExecNode(out) ==
    /\ status = "running"
    /\ phase = "exec"
    /\ out \in ExecOutcomes(nodes[curr])
    /\ (nodes[curr].kind = "MCPNode" /\ curr \notin ServerTools)
          => out.kind = "raise"
    /\ IF out.kind = "raise"
       THEN /\ status' = "failed"
            /\ UNCHANGED <<phase, exec_res>>
       ELSE /\ exec_res' = IF out.kind = "input" THEN prep_res ELSE out.value
            /\ phase' = "post"
            /\ UNCHANGED status
    /\ UNCHANGED <<workflow_spec, custom_node_classes, initial_input,
                   connections, ordered_nodes, start_node_name, nodes,
                   successors, shared, curr, prep_res, routing_key, finalized,
                   trace, lastHop, sharedAtPrep>>

\* post_async of the current node
PostAsync ==
    /\ status = "running"
    /\ phase = "post"
    /\ shared' = SharedAfterPost(shared, curr, nodes[curr], prep_res, exec_res)
    /\ routing_key' = PostKey(nodes[curr], exec_res)
    /\ finalized' = curr
    /\ phase' = "route"
    /\ UNCHANGED <<workflow_spec, custom_node_classes, initial_input, status,
                   connections, ordered_nodes, start_node_name, nodes,
                   successors, curr, prep_res, exec_res, trace, lastHop,
                   sharedAtPrep>>

\* the substrate picks the next node, or ends the run when no edge matches
Advance ==
    /\ status = "running"
    /\ phase = "route"
    /\ LET next == GetNextNode(successors, curr, routing_key)
       IN  /\ lastHop' = [from |-> curr, key |-> routing_key, to |-> next]
           /\ IF next = None
              THEN /\ status' = "done"
                   /\ phase' = "idle"
                   /\ UNCHANGED <<curr, trace, sharedAtPrep>>
              ELSE /\ Len(trace) < MaxSteps
                   /\ curr' = next
                   /\ phase' = "prep"
                   /\ trace' = Append(trace, next)
                   /\ sharedAtPrep' = shared
                   /\ UNCHANGED status
    /\ UNCHANGED <<workflow_spec, custom_node_classes, initial_input,
                   connections, ordered_nodes, start_node_name, nodes,
                   successors, shared, prep_res, exec_res, routing_key,
                   finalized>>

(***************************************************************************)
(* Registry specification                                                  *)
(***************************************************************************)
NoOp == [op |-> "init", category |-> None, tool |-> None, args |-> <<>>,
         response |-> NoResponse]

NoRun == [phase |-> "idle"]

\* a fresh data directory: no index file, no mock files, no mocks.json
RegistryFresh ==
    /\ index = EmptyFn
    /\ files = EmptyFn
    /\ indexFile = Absent
    /\ mocks = EmptyFn
    /\ mockFile = Absent
    /\ lastOp = NoOp
    /\ recorded = {}

RunnerIdle ==
    /\ cfg = [fastmcp |-> TRUE, use_mocks |-> FALSE, record_mocks |-> FALSE]
    /\ lastRun = NoRun

InitRegistry ==
    /\ impl \in {"json", "legacy"}
    /\ RegistryFresh
    /\ RunnerIdle
    /\ FlowIdle

\* the calls recorded: search with every argument dict, echo with {} and
\* with {"a": "x"}
RecordedCalls ==
    { <<"search", a>> : a \in ArgDicts }
        \cup { <<"echo", a>> : a \in { b \in ArgDicts : b = <<>> \/ b = <<<<"a", "x">>>> } }

NextRegistry ==
    \/ \E c \in InputCategories, call \in RecordedCalls, r \in Responses :
          SaveMock(c, call[1], call[2], r) /\ UNCHANGED <<runVars, flowVars>>
    \/ \E c \in InputCategories \cup {None} :
          ClearMocks(c) /\ UNCHANGED <<runVars, flowVars>>
    \/ \E call \in RecordedCalls, r \in Responses :
          LegacyRecord(call[1], call[2], r) /\ UNCHANGED <<runVars, flowVars>>

SpecRegistry == InitRegistry /\ [][NextRegistry]_vars

(***************************************************************************)
(* Re-recording specification: one tool recorded again and again, with     *)
(* what a lookup returned before each recording                            *)
(***************************************************************************)
\* everything outside the registry, but for the observation of the lookup
idleVars == <<runVars, workflow_spec, custom_node_classes, initial_input,
              buildState, runState, written, sideVars>>

NextRerecord ==
    \/ \E c \in {"tools"}, t \in {"search"}, a \in ArgDicts, r \in Responses :
          /\ SaveMock(c, t, a, r)
          /\ replaced' = LoadMock(c, t, a)
          /\ UNCHANGED idleVars
    \/ \E c \in InputCategories :
          /\ ClearMocks(c)
          /\ replaced' = NoResponse
          /\ UNCHANGED idleVars
    \/ \E t \in {"search"}, a \in ArgDicts, r \in Responses :
          /\ LegacyRecord(t, a, r)
          /\ replaced' = LegacyGet(t, a)
          /\ UNCHANGED idleVars

SpecRerecord == InitRegistry /\ [][NextRerecord]_vars

(***************************************************************************)
(* Damaged registry specification: mocks are saved, files of the data      *)
(* directory are damaged from outside, the registry is opened again        *)
(***************************************************************************)
\* the paths a mock file can have
MockPaths == { MockPath("tools", "search", a) : a \in ArgDicts }

InitDamaged ==
    /\ impl = "json"
    /\ RegistryFresh
    /\ RunnerIdle
    /\ FlowIdle

NextDamaged ==
    \/ \E a \in ArgDicts, r \in Responses :
          SaveMock("tools", "search", a, r) /\ UNCHANGED <<runVars, flowVars>>
    \/ \E p \in MockPaths : DeleteMockFile(p) /\ UNCHANGED <<runVars, flowVars>>
    \/ \E p \in MockPaths : GarbleMockFile(p) /\ UNCHANGED <<runVars, flowVars>>
    \/ GarbleIndexFile /\ UNCHANGED <<runVars, flowVars>>
    \/ OpenRegistry /\ UNCHANGED <<runVars, flowVars>>

SpecDamaged == InitDamaged /\ [][NextDamaged]_vars

(***************************************************************************)
(* Two-process specification: two registries opened on one data directory, *)
(* each saving mocks and each restarted at any time                        *)
(***************************************************************************)
\* the rest of the process
besidePeer ==
    <<runVars, flowCore, histVars, batchVars, retryVars, valVars, cfgVars>>

InitTwoWriters ==
    /\ impl = "json"
    /\ RegistryFresh
    /\ RunnerIdle
    /\ FlowIdle

\* the arguments the two processes record: {}, {"a": "x"} and {"b": "x"}
WriterArgs == { a \in ArgDicts : Len(a) <= 1 }
WriterResponse == [kind |-> "result", text |-> "R1"]

NextTwoWriters ==
    \/ \E a \in WriterArgs :
          /\ SaveMock("tools", "search", a, WriterResponse)
          /\ writers' = writers \cup {"self"}
          /\ UNCHANGED <<peerIndex, besidePeer>>
    \/ \E a \in WriterArgs :
          PeerSaveMock("tools", "search", a, WriterResponse)
          /\ UNCHANGED besidePeer
    \/ OpenRegistry /\ UNCHANGED <<peerVars, besidePeer>>
    \/ PeerOpenRegistry /\ UNCHANGED besidePeer

SpecTwoWriters == InitTwoWriters /\ [][NextTwoWriters]_vars

(***************************************************************************)
(* Run history specification: runs saved one after the other               *)
(***************************************************************************)
\* spec names: a.yaml, a and b/a.yaml
SpecNames == {<<"a", ".yaml">>, <<"a">>, <<"b", "/", "a", ".yaml">>}

InitHistory ==
    /\ impl = "json"
    /\ RegistryFresh
    /\ RunnerIdle
    /\ FlowIdle

NextHistory ==
    \E n \in SpecNames, elapsed \in {0, 1}, can_link \in BOOLEAN :
        /\ SaveRun(n, elapsed, can_link)
        /\ UNCHANGED <<regVars, runVars, flowCore, batchVars, retryVars,
                       peerVars, valVars, cfgVars>>

SpecHistory == InitHistory /\ [][NextHistory]_vars

(***************************************************************************)
(* Runner specification                                                    *)
(***************************************************************************)
\* the test cases of the runner specification
FlagValues == {"absent", None, "True", "False"}
TestArgs == { a \in ArgDicts : Len(a) <= 1 /\ \A i \in DOMAIN a : a[i][1] = "a" }
InlineMocks == {MockAbsent, NoResponse, [kind |-> "result", text |-> Str_HI]}

RunnerTests ==
    [tool : {"search"}, args : TestArgs, use_mocks : FlagValues,
     record_mocks : {"absent", "True"}, mock : InlineMocks,
     expected_schema : {None}, expected_keywords : {<<>>, <<Str_hi>>},
     max_latency : {{}}]

InitRunner ==
    /\ impl = "legacy"
    /\ RegistryFresh
    /\ cfg \in [fastmcp : BOOLEAN, use_mocks : {"True", "False"},
                record_mocks : {"True", "False"}]
    /\ lastRun = NoRun
    /\ FlowIdle

NextRunner ==
    \E tc \in RunnerTests, out \in Outcomes \cup {NoCall} :
        ExecAsync(tc, out) /\ UNCHANGED flowVars

SpecRunner == InitRunner /\ [][NextRunner]_vars

(***************************************************************************)
(* Validator specification: test cases with every kind of expectation      *)
(***************************************************************************)
\* a mock the schema ExpectedTask accepts, and one it rejects
ValidatorMocks ==
    {MockAbsent, [kind |-> "task", text |-> Str_hi],
     [kind |-> "result", text |-> Str_no]}

ValidatorTests ==
    [tool : {"search"}, args : {<<>>}, use_mocks : {"absent", "True"},
     record_mocks : {"absent"}, mock : ValidatorMocks,
     expected_schema : {None, "ExpectedTask", "Unregistered"},
     expected_keywords : {<<>>, <<Str_HI>>, <<Str_hi, Str_no>>},
     max_latency : {{}, {5}, {20}}]

InitValidator ==
    /\ impl = "legacy"
    /\ RegistryFresh
    /\ cfg = [fastmcp |-> TRUE, use_mocks |-> "False", record_mocks |-> "False"]
    /\ lastRun = NoRun
    /\ FlowIdle

NextValidator ==
    \E tc \in ValidatorTests, out \in ServerAnswers \cup {NoCall} :
        ExecAsync(tc, out) /\ UNCHANGED flowVars

SpecValidator == InitValidator /\ [][NextValidator]_vars

(***************************************************************************)
(* Batch specification: one spec is loaded and its batch is run            *)
(***************************************************************************)
\* a test case with the keys the batch specification varies
BatchTest(use_mocks, record_mocks, mock, keywords) ==
    [tool |-> "search", args |-> <<>>, use_mocks |-> use_mocks,
     record_mocks |-> record_mocks, mock |-> mock, expected_schema |-> None,
     expected_keywords |-> keywords, max_latency |-> {}]

\* a recorded real call, a replay that falls back to the call, an inline
\* mock, and a test with mocking enabled whose "mock" key is null
BatchTests ==
    { BatchTest("absent", "True", MockAbsent, <<Str_hi>>),
      BatchTest("True", "absent", MockAbsent, <<>>),
      BatchTest("True", "absent", [kind |-> "result", text |-> Str_HI], <<>>),
      BatchTest("True", "absent", NoResponse, <<>>) }

\* the server keys of a spec: a list, a single server, and the single
\* server as a validated spec dumps it (with a null "mcp_servers")
BatchServers ==
    { [mcp_servers |-> Value(<<"s1", "s2">>), mcp_server |-> NoKey],
      [mcp_servers |-> NoKey, mcp_server |-> Value("s1")],
      [mcp_servers |-> Null, mcp_server |-> Value("s1")] }

BatchSpecs ==
    { [mcp_servers |-> sv.mcp_servers, mcp_server |-> sv.mcp_server,
       custom_tests |-> ts] :
        sv \in BatchServers, ts \in SeqsUpTo(BatchTests, MaxTests) \ {<<>>} }

InitBatch ==
    /\ impl = "legacy"
    /\ RegistryFresh
    /\ cfg \in [fastmcp : {TRUE}, use_mocks : {"False"},
                record_mocks : {"True", "False"}]
    /\ lastRun = NoRun
    /\ FlowIdle

NextBatch ==
    \/ /\ batchState = "idle"
       /\ \E spec \in BatchSpecs : LoadSpec(spec)
       /\ UNCHANGED <<regVars, runVars, besideBatch>>
    \/ BatchPrepAsync /\ UNCHANGED <<regVars, runVars, besideBatch>>
    \/ \E out \in ServerAnswers \cup {NoCall} :
          BatchExecAsync(out) /\ UNCHANGED besideBatch
    \/ BatchPostAsync /\ UNCHANGED <<regVars, runVars, besideBatch>>
    \/ BatchAbort /\ UNCHANGED <<regVars, runVars, besideBatch>>

SpecBatch == InitBatch /\ [][NextBatch]_vars

(***************************************************************************)
(* Retry specification: one retry_async call                               *)
(***************************************************************************)
\* three attempts at most, delays from 1 s doubling, capped at 3 s or 60 s
RetryConfigs ==
    { RetryConfig(m, b, c, 2, j, r) :
        m \in 0..MaxAttempts, b \in {1, 2}, c \in {3, 60}, j \in BOOLEAN,
        r \in {{}, {"TimeoutError"}} }

InitRetry ==
    /\ impl = "legacy"
    /\ RegistryFresh
    /\ RunnerIdle
    /\ FlowIdle

NextRetry ==
    \/ /\ retryState = "idle"
       /\ \E config \in RetryConfigs : RetryAsync(config)
       /\ UNCHANGED besideRetry
    \/ /\ retryState = "running"
       /\ \E outcome \in FailureKinds \cup {Success} : RetryAttempt(outcome)
       /\ UNCHANGED besideRetry
    \/ /\ RetryNoAttempt
       /\ UNCHANGED besideRetry

SpecRetry == InitRetry /\ [][NextRetry]_vars

(***************************************************************************)
(* Parser specification: a workflow is built from a short workflow text    *)
(***************************************************************************)
ParserNames == {"fetch", "check", "store", Complete}
Actions == {None, "ok"}

\* the param forms of an edge line, tried on the edge fetch >> store
ParamLines ==
    { EdgeLine("fetch", sp, a, "store", tp) :
        sp \in {NoParams, <<"q">>}, a \in Actions,
        tp \in {NoParams, <<"url", "limit">>} }

ParserLines ==
    {BlankLine, UnmatchedLine}
        \cup { BareLine(n) : n \in ParserNames }
        \cup { EdgeLine(s, NoParams, a, t, NoParams) :
                 s \in ParserNames, a \in Actions, t \in ParserNames }
        \cup ParamLines

InitParser ==
    /\ impl = "legacy"
    /\ RegistryFresh
    /\ RunnerIdle
    /\ FlowIdle

NextParser ==
    /\ status = "new"
    /\ \E lines \in SeqsUpTo(ParserLines, MaxLines) :
          NewWorkflow(lines, EmptyFn, EmptyFn)
    /\ UNCHANGED <<regVars, runVars, obsVars, sideVars>>

SpecParser == InitParser /\ [][NextParser]_vars

(***************************************************************************)
(* Text specification: parse_workflow applied to written lines             *)
(***************************************************************************)
\* the (source, action, target, params) tuples lines are written from
TextTuples ==
    { Connection(<<"f">>, a, <<"g", "o">>, ps) :
        a \in {NoText, <<"k">>},
        ps \in {NoParams, <<(<<"u">>)>>, <<(<<"u">>), (<<"v">>)>>} }

\* ways of writing an edge: single spaces and single quotes; no spaces and
\* double quotes; spaces around the line, the operators and the commas
Styles == {"plain", "tight", "loose"}

Gap(style) ==
    IF style = "tight" THEN <<>>
    ELSE IF style = "loose" THEN <<" ", " ">>
    ELSE <<" ">>

QuoteOf(style) == IF style = "tight" THEN "\"" ELSE "'"

CommaOf(style) == IF style = "loose" THEN <<" ", ",", " ">> ELSE <<",">>

RECURSIVE Join(_, _)
Join(params, sep) ==
    IF Len(params) = 1 THEN params[1]
    ELSE params[1] \o sep \o Join(Tail(params), sep)

\* the line source - 'action' >> target[params] of a tuple
WriteLine(c, style) ==
    LET body ==
          c.source
          \o (IF c.action # NoText
              THEN Gap(style) \o <<"-">> \o Gap(style) \o <<QuoteOf(style)>>
                   \o c.action \o <<QuoteOf(style)>>
              ELSE <<>>)
          \o Gap(style) \o <<">", ">">> \o Gap(style)
          \o c.target
          \o (IF c.params # NoParams
              THEN <<"[">> \o Join(c.params, CommaOf(style)) \o <<"]">>
              ELSE <<>>)
    IN  IF style = "loose" THEN <<" ">> \o body \o <<" ">> ELSE body

\* lines that are blank after strip()
BlankTexts == {<<>>, <<" ", " ">>}

\* bare node names
BareTexts == {<<"f">>, <<" ", "g", "o">>}

\* non-blank lines of neither form: >> go, f >>, f - k >> go, f[ >> go,
\* f[] >> go, f >> go >> f, f >> go], f >> go[]
OtherTexts ==
    { <<">", ">", " ", "g", "o">>,
      <<"f", " ", ">", ">">>,
      <<"f", " ", "-", " ", "k", " ", ">", ">", " ", "g", "o">>,
      <<"f", "[", " ", ">", ">", " ", "g", "o">>,
      <<"f", "[", "]", " ", ">", ">", " ", "g", "o">>,
      <<"f", " ", ">", ">", " ", "g", "o", " ", ">", ">", " ", "f">>,
      <<"f", " ", ">", ">", " ", "g", "o", "]">>,
      <<"f", " ", ">", ">", " ", "g", "o", "[", "]">> }

\* a written line: its text, its form and, for an edge line, its tuple
NoTuple == Connection(<<>>, NoText, <<>>, NoParams)

Written(text, form, tuple) == [text |-> text, form |-> form, tuple |-> tuple]

WrittenLines ==
    { Written(WriteLine(c, st), "edge", c) : c \in TextTuples, st \in Styles }
        \cup { Written(t, "blank", NoTuple) : t \in BlankTexts }
        \cup { Written(t, "bare", NoTuple) : t \in BareTexts }
        \cup { Written(t, "other", NoTuple) : t \in OtherTexts }

\* WorkflowParser.parse_workflow(workflow_lines), as _build_workflow calls it
\* on the workflow spec
ParseWorkflowText(ws) ==
    /\ status = "new"
    /\ written' = ws
    /\ workflow_spec' = [i \in DOMAIN ws |-> ws[i].text]
    /\ connections' = ParseText(workflow_spec')
    /\ status' = "parsed"
    /\ UNCHANGED <<custom_node_classes, initial_input, ordered_nodes,
                   start_node_name, nodes, successors, runState, replaced,
                   sideVars>>

NextText ==
    /\ status = "new"
    /\ \E ws \in SeqsUpTo(WrittenLines, MaxLines) : ParseWorkflowText(ws)
    /\ UNCHANGED <<regVars, runVars>>

SpecText == InitParser /\ [][NextText]_vars

(***************************************************************************)
(* Flow specification: build a workflow and run it                         *)
(***************************************************************************)
FlowNames == {"fetch", "check", Complete}

FlowLines ==
    {UnmatchedLine}
        \cup { BareLine(n) : n \in FlowNames }
        \cup { EdgeLine(s, NoParams, a, t, NoParams) :
                 s \in FlowNames, a \in Actions, t \in FlowNames }
        \cup { EdgeLine("check", NoParams, a, "fetch", <<"url">>) :
                 a \in Actions }

\* the custom node file: class name -> base class
CustomClassSets ==
    { [c \in {"Check"} |-> base] :
        base \in {"ValidationNode", "RoutingNode", "TransformNode"} }

InitialInputs == {EmptyFn, [k \in {"url", "id"} |-> "x"]}

InitFlow ==
    /\ impl = "legacy"
    /\ RegistryFresh
    /\ RunnerIdle
    /\ FlowIdle

\* the steps of the substrate on a started run, with the given outcomes
\* of a schema lookup
StepsWith(outcomes) ==
    \/ \E found \in outcomes \cup {NoLookup} :
          PrepAsync(found) /\ UNCHANGED <<regVars, runVars, obsVars, sideVars>>
    \/ \E out \in ExecOutcomes(MCPNode(None, NoParams))
                    \cup ExecOutcomes(CustomNode("TransformNode"))
                    \cup ExecOutcomes(CustomNode("ValidationNode")) :
          ExecNode(out) /\ UNCHANGED <<regVars, runVars, obsVars, sideVars>>
    \/ PostAsync /\ UNCHANGED <<regVars, runVars, obsVars, sideVars>>
    \/ Advance /\ UNCHANGED <<regVars, runVars, obsVars, sideVars>>

RunSteps == StepsWith(DiscoveryOutcomes)

NextFlow ==
    \/ /\ status = "new"
       /\ \E lines \in SeqsUpTo(FlowLines, MaxLines),
             classes \in CustomClassSets, input \in InitialInputs :
             NewWorkflow(lines, classes, input)
       /\ UNCHANGED <<regVars, runVars, obsVars, sideVars>>
    \/ RunAsync /\ UNCHANGED <<regVars, runVars, obsVars, sideVars>>
    \/ RunSteps

SpecFlow == InitFlow /\ [][NextFlow]_vars

(***************************************************************************)
(* Explicit-params specification: workflows of tool nodes whose edges      *)
(* carry param lists, several of them into the same node                   *)
(***************************************************************************)
ParamEdgeLines ==
    { EdgeLine("fetch", NoParams, None, "store", <<"url">>),
      EdgeLine("fetch", <<"id">>, None, "store", NoParams),
      EdgeLine("fetch", NoParams, None, "store", NoParams),
      EdgeLine("store", NoParams, None, "store", <<"id">>),
      EdgeLine("store", NoParams, None, "store", <<"url">>),
      EdgeLine("store", NoParams, None, "fetch", NoParams) }

ParamSteps == StepsWith({ClientError, Schema({"url", "id"}, {})})

NextParams ==
    \/ /\ status = "new"
       /\ \E lines \in SeqsUpTo(ParamEdgeLines, MaxLines),
             input \in InitialInputs :
             NewWorkflow(lines, EmptyFn, input)
       /\ UNCHANGED <<regVars, runVars, obsVars, sideVars>>
    \/ RunAsync /\ UNCHANGED <<regVars, runVars, obsVars, sideVars>>
    \/ ParamSteps

SpecParams == InitFlow /\ [][NextParams]_vars

(***************************************************************************)
(* Validation specification: a ValidationNode with every configuration,    *)
(* run on every input                                                      *)
(***************************************************************************)
\* allowed_routes: None, empty, and lists with and without "error"
AllowedRouteLists ==
    {Null, Value(<<>>), Value(<<"ok">>), Value(<<"ok", "retry">>),
     Value(<<"error">>)}

ValidationNodes ==
    { ValidationNode(a, d, "user") :
        a \in AllowedRouteLists, d \in {"default", "ok"} }
        \cup { RetryHandler(m) : m \in 0..MaxAttempts }

\* inputs: dicts with and without retry_count, the text of a tool result
ValidationInputs ==
    {EmptyDict, Str("page")}
        \cup { Dict([k \in {"retry_count"} |-> n]) : n \in 0..MaxAttempts }

\* the rest of the process
besideValidation ==
    <<regVars, runVars, flowCore, histVars, batchVars, retryVars, peerVars,
      cfgVars>>

InitValidation ==
    /\ impl = "legacy"
    /\ RegistryFresh
    /\ RunnerIdle
    /\ FlowIdle

NextValidation ==
    \/ /\ vnode = NoValidationNode
       /\ \E node \in ValidationNodes : NewValidationNode(node)
       /\ UNCHANGED besideValidation
    \/ \E input \in ValidationInputs :
          ValidationPrep(input) /\ UNCHANGED besideValidation
    \/ /\ vrun.phase = "prep"
       /\ \E outcome \in ValidateOutcomes(vnode, vrun.input) :
             ValidationExecAsync(outcome)
       /\ UNCHANGED besideValidation
    \/ ValidationPost /\ UNCHANGED besideValidation

SpecValidation == InitValidation /\ [][NextValidation]_vars

(***************************************************************************)
(* Decorator specification: functions decorated with retryable() are       *)
(* called one after the other, some with the predefined configuration      *)
(***************************************************************************)
\* the retryable_exceptions argument of the decorator: not given, or a list
ExceptionLists == {{}, {"ValueError"}, {"TimeoutError", "ValueError"}}

\* the rest of the process
besideDecorator ==
    <<regVars, runVars, flowCore, histVars, batchVars, peerVars, valVars>>

NextDecorator ==
    \/ /\ retryState = "idle"
       /\ \E config \in ConfigArguments, x \in ExceptionLists :
             Wrapper_retryable(config, x)
       /\ UNCHANGED besideDecorator
    \/ /\ retryState = "idle"
       /\ RetryAsync(STANDARD_RETRY)
       /\ UNCHANGED <<besideDecorator, cfgVars>>
    \/ /\ retryState = "running"
       /\ \E outcome \in FailureKinds \cup {Success} : RetryAttempt(outcome)
       /\ UNCHANGED <<besideDecorator, cfgVars>>
    \/ RetryOverAndOut /\ UNCHANGED <<besideDecorator, cfgVars>>

SpecDecorator == InitRetry /\ [][NextDecorator]_vars

(***************************************************************************)
(* Fair flow specification: the substrate keeps driving a started run      *)
(* whose calls return                                                      *)
(***************************************************************************)
FairLines ==
    { BareLine("fetch"), BareLine("check"),
      EdgeLine("fetch", NoParams, None, "check", NoParams),
      EdgeLine("check", NoParams, None, "fetch", NoParams),
      EdgeLine("check", NoParams, "ok", "fetch", NoParams),
      EdgeLine("fetch", NoParams, "ok", "check", NoParams) }

FairClassSets ==
    { [c \in {"Check"} |-> base] : base \in {"ValidationNode", "TransformNode"} }

NextFlowFair ==
    \/ /\ status = "new"
       /\ \E lines \in SeqsUpTo(FairLines, MaxLines),
             classes \in FairClassSets :
             NewWorkflow(lines, classes, EmptyFn)
       /\ UNCHANGED <<regVars, runVars, obsVars, sideVars>>
    \/ RunAsync /\ UNCHANGED <<regVars, runVars, obsVars, sideVars>>
    \/ RunSteps

SpecFlowFair == InitFlow /\ [][NextFlowFair]_vars /\ WF_vars(RunSteps)

(***************************************************************************)
(* Mapper specification: workflows of tool nodes, run against a server     *)
(* whose schema lookups end in every way                                   *)
(***************************************************************************)
\* "ghost" is a tool the server does not list
MapperLines ==
    { BareLine("fetch"),
      EdgeLine("fetch", NoParams, None, "store", NoParams),
      EdgeLine("fetch", NoParams, None, "store", <<"url", "limit">>),
      EdgeLine("store", NoParams, None, "fetch", NoParams),
      EdgeLine("store", NoParams, None, "fetch", <<"url", "limit">>),
      EdgeLine("fetch", NoParams, None, "ghost", NoParams) }

MapperInputs ==
    { EmptyFn, [k \in {"url", "id"} |-> "x"],
      [k \in {"url", "title", "content"} |-> "x"] }

\* the ways a schema lookup ends, and the schemas a tool can declare:
\* (all fields, required fields)
MapperDiscoveries ==
    { ClientError, NotListed, NoSchema,
      Schema({}, {}),
      Schema({"url"}, {"url"}),
      Schema({"limit"}, {}),
      Schema({"url", "limit"}, {"limit"}),
      Schema({"content", "max_links"}, {"content"}) }

MapperSteps == StepsWith(MapperDiscoveries)

NextMapper ==
    \/ /\ status = "new"
       /\ \E lines \in SeqsUpTo(MapperLines, MaxLines),
             input \in MapperInputs :
             NewWorkflow(lines, EmptyFn, input)
       /\ UNCHANGED <<regVars, runVars, obsVars, sideVars>>
    \/ RunAsync /\ UNCHANGED <<regVars, runVars, obsVars, sideVars>>
    \/ MapperSteps

SpecMapper == InitFlow /\ [][NextMapper]_vars

(***************************************************************************)
(* Claims: registry                                                        *)
(***************************************************************************)
\* the last operation recorded a response under the key a lookup of
\* (category, tool, args) uses
LastRecorded(category, tool, args) ==
    /\ lastOp.op \in {"save", "record"}
    /\ lastOp.category = category
    /\ lastOp.tool = tool
    /\ ArgsEqual(lastOp.args, args)

\* what a lookup returns from the registry class in use
Lookup(category, tool, args) ==
    IF impl = "json" THEN LoadMock(category, tool, args)
    ELSE IF category = "tools" THEN LegacyGet(tool, args) ELSE NoResponse

\* C1 (part): right after recording R, every lookup with the same tool and
\* equal arguments, in whatever order they are written, returns R
C1_ReplayReturnsRecorded ==
    \A c \in Categories, t \in Tools, a \in ArgDicts :
        LastRecorded(c, t, a) => Lookup(c, t, a) = lastOp.response

\* C1 (part): a lookup under a category, tool and arguments for which
\* nothing was recorded is a miss
C1_MissUnlessRecorded ==
    \A c \in Categories, t \in Tools, a \in ArgDicts :
        Recording(c, t, a) \notin recorded => Lookup(c, t, a) = NoResponse

\* C1: record then replay round-trips: a lookup with the recorded tool and
\* equal arguments returns the recorded response unchanged, and a lookup
\* for which nothing was recorded is a miss
C1_RecordReplayRoundTrip ==
    C1_ReplayReturnsRecorded /\ C1_MissUnlessRecorded

\* C1 witness: a response was recorded under two-key arguments, the lookup
\* with the keys in the other order returns it, and another tool and other
\* arguments miss
C1_Witness ==
    /\ lastOp.op \in {"save", "record"}
    /\ Len(lastOp.args) = 2
    /\ \E a \in ArgDicts :
          /\ a # lastOp.args
          /\ ArgsEqual(a, lastOp.args)
          /\ Lookup(lastOp.category, lastOp.tool, a) = lastOp.response
    /\ \E t \in Tools, a \in ArgDicts :
          /\ ~ArgsEqual(a, lastOp.args)
          /\ Lookup(lastOp.category, lastOp.tool, a) = NoResponse
          /\ t # lastOp.tool
          /\ Lookup(lastOp.category, t, lastOp.args) = NoResponse
    /\ \E t \in Tools, a \in ArgDicts :
          /\ ~LastRecorded(lastOp.category, t, a)
          /\ Lookup(lastOp.category, t, a) # NoResponse

\* what _load_index reads back from the index file
IndexOnDisk == IF indexFile = Absent THEN EmptyFn ELSE indexFile[1]

\* C4: the index and the mock files on disk agree: every index entry points
\* to an existing mock file, every mock file is referenced by an index
\* entry, and the index file equals the in-memory index
C4_IndexConsistentWithFiles ==
    impl = "json" =>
        /\ \A k \in DOMAIN index : index[k] \in DOMAIN files
        /\ \A p \in DOMAIN files : \E k \in DOMAIN index : index[k] = p
        /\ IndexOnDisk = index

\* the key/value pairs of an argument mapping
Pairs(args) == { args[i] : i \in DOMAIN args }

\* C19: the mock key ignores the order of the arguments: after a recording,
\* every mapping with the same key/value pairs written in another order has
\* the same lookup key and the same storage file name, and the record is
\* found under it
C19_KeyIgnoresArgumentOrder ==
    lastOp.op \in {"save", "record"} =>
        \A a \in ArgDicts :
            Pairs(a) = Pairs(lastOp.args) =>
                IF impl = "json"
                THEN /\ GetMockKey(lastOp.category, lastOp.tool, a)
                          = GetMockKey(lastOp.category, lastOp.tool, lastOp.args)
                     /\ MockPath(lastOp.category, lastOp.tool, a)
                          = MockPath(lastOp.category, lastOp.tool, lastOp.args)
                     /\ HasMockInCategory(lastOp.category, lastOp.tool, a)
                     /\ index[GetMockKey(lastOp.category, lastOp.tool, a)]
                          = MockPath(lastOp.category, lastOp.tool, a)
                ELSE /\ LegacyMockKey(lastOp.tool, a)
                          = LegacyMockKey(lastOp.tool, lastOp.args)
                     /\ LegacyHasMock(lastOp.tool, a)

\* a record saved with the arguments written b, a is indexed under the key
\* of a, b
C19_Witness ==
    /\ impl = "json"
    /\ lastOp.op = "save"
    /\ lastOp.args = <<(<<"b", "x">>), (<<"a", "x">>)>>
    /\ HasMockInCategory(lastOp.category, lastOp.tool,
                         <<(<<"a", "x">>), (<<"b", "x">>)>>)

\* the index entries and the mock files of a (category, tool, args)
EntriesOf(category, tool, args) ==
    { k \in DOMAIN index :
        k[1] = category /\ k[2] = tool /\ Pairs(k[3]) = Pairs(args) }

FilesOf(category, tool, args) ==
    { p \in DOMAIN files :
        /\ files[p].category = category
        /\ files[p].name = tool
        /\ Pairs(files[p].arguments) = Pairs(args) }

LegacyEntriesOf(tool, args) ==
    { k \in DOMAIN mocks : k[1] = tool /\ Pairs(k[2]) = Pairs(args) }

\* C20: recording is last-write-wins per key: after a recording, however
\* often the key was recorded before, the registry holds exactly one index
\* entry and one mock file for the key and replay returns the response
\* recorded last
C20_LastWriteWins ==
    lastOp.op \in {"save", "record"} =>
        /\ Lookup(lastOp.category, lastOp.tool, lastOp.args) = lastOp.response
        /\ IF impl = "json"
           THEN /\ Cardinality(EntriesOf(lastOp.category, lastOp.tool,
                                         lastOp.args)) = 1
                /\ Cardinality(FilesOf(lastOp.category, lastOp.tool,
                                       lastOp.args)) = 1
                /\ IndexOnDisk = index
           ELSE /\ Cardinality(LegacyEntriesOf(lastOp.tool, lastOp.args)) = 1
                /\ mockFile = FileOf(mocks)

\* a key that replayed R1 was recorded again with R2, with the arguments in
\* the other order
C20_Witness ==
    /\ impl = "json"
    /\ lastOp.op = "save"
    /\ replaced = [kind |-> "result", text |-> "R1"]
    /\ lastOp.response = [kind |-> "result", text |-> "R2"]
    /\ Len(lastOp.args) = 2
    /\ \E p \in FilesOf(lastOp.category, lastOp.tool, lastOp.args) :
          files[p].response = lastOp.response
    /\ LoadMock(lastOp.category, lastOp.tool, lastOp.args) = lastOp.response

\* C30: a damaged or missing registry file is a cache miss: has_mock is
\* true exactly when get returns a response, so a key whose mock file is
\* missing or cannot be parsed, and every key after the index file could not
\* be parsed, is reported as not there
C30_HasMockIffGetReturns ==
    impl = "json" =>
        \A t \in Tools, a \in ArgDicts :
            HasMockInCategory("tools", t, a)
                <=> (LoadMock("tools", t, a) # NoResponse)

\* the part that holds: get never returns a response for a key whose mock
\* file is missing or garbage, and an index file that cannot be parsed is
\* read as an empty index
C30_GetMissesOnDamage ==
    impl = "json" =>
        /\ \A t \in Tools, a \in ArgDicts :
              LoadMock("tools", t, a) # NoResponse =>
                  /\ HasMockInCategory("tools", t, a)
                  /\ index[GetMockKey("tools", t, a)] \in DOMAIN files
                  /\ files[index[GetMockKey("tools", t, a)]] # NotJsonMock
        /\ indexFile = NotJsonIndex => LoadIndex = EmptyFn

(***************************************************************************)
(* Claims: test runner                                                     *)
(***************************************************************************)
\* mocking is enabled for the test of the last run: by its own flag, or by
\* the global flag when it has none
MockingEnabled ==
    \/ lastRun.flag = "True"
    \/ lastRun.flag = "absent" /\ cfg.use_mocks = "True"

\* the test of the last run carries an inline mock response
InlineMockPresent == lastRun.mock \notin {MockAbsent, NoResponse}

\* C2 as stated: in replay mode (mocking enabled, no inline mock) a registry
\* miss makes the test case fail without any call to the real server
C2_ReplayMissFailsWithoutCall ==
    (/\ lastRun.phase = "done"
     /\ MockingEnabled
     /\ ~InlineMockPresent
     /\ ~lastRun.hit)
        => /\ lastRun.calls = 0
           /\ ~lastRun.raised
           /\ lastRun.result.status = "FAIL"

\* C2 amended: in replay mode, for a test case without a "mock" key, a
\* registry miss falls through to the real call: the registry is consulted
\* once, the server is called exactly once when the client library is
\* installed (mode real, recorded or error), and only when the library is
\* missing does the test case fail (mode error) without a call
C2_ReplayMissFallsThrough ==
    (/\ lastRun.phase = "done"
     /\ MockingEnabled
     /\ lastRun.mock = MockAbsent
     /\ ~lastRun.hit)
        => /\ ~lastRun.raised
           /\ lastRun.reads = 1
           /\ IF cfg.fastmcp
                 THEN /\ lastRun.calls = 1
                      /\ lastRun.result.mode \in {"real", "recorded", "error"}
                 ELSE /\ lastRun.calls = 0
                      /\ lastRun.result.mode = "error"
                      /\ lastRun.result.status = "FAIL"

\* a replay miss that reached the server and passed
C2_Witness ==
    /\ lastRun.phase = "done"
    /\ MockingEnabled
    /\ lastRun.mock = MockAbsent
    /\ ~lastRun.hit
    /\ lastRun.calls = 1
    /\ lastRun.result.status = "PASS"

\* C3: with mocking enabled the response comes from the inline mock if there
\* is one (registry and server not consulted), else from the registry if it
\* holds a record (server not called), and the server is called only when
\* neither applies
C3_ResponsePrecedence ==
    (lastRun.phase = "done" /\ MockingEnabled) =>
        /\ InlineMockPresent =>
              /\ ~lastRun.raised
              /\ lastRun.result.response = lastRun.mock
              /\ lastRun.reads = 0
              /\ lastRun.calls = 0
        /\ (~InlineMockPresent /\ lastRun.hit) =>
              /\ ~lastRun.raised
              /\ lastRun.result.response = lastRun.stored
              /\ lastRun.calls = 0
        /\ lastRun.calls > 0 => (~InlineMockPresent /\ ~lastRun.hit)

\* the same precedence for test cases whose "mock" key is absent or a dict
C3_PrecedenceWithoutNullMock ==
    lastRun.phase = "done" =>
        (lastRun.mock # NoResponse => C3_ResponsePrecedence)

\* recording is enabled for the test of the last run: by its own flag, or by
\* the global flag when it has none
RecordingEnabled ==
    \/ lastRun.record = "True"
    \/ lastRun.record = "absent" /\ cfg.record_mocks = "True"

\* C21: a mock record is written only by a run that called the server, got
\* an answer and has recording enabled: a run whose call timed out or
\* raised, an inline-mock run and a replay run leave the registry and its
\* file as they were
C21_RecordOnlyAfterSuccessfulRealCall ==
    [][(mocks' # mocks \/ mockFile' # mockFile) =>
          /\ lastRun'.calls = 1
          /\ ~lastRun'.raised
          /\ lastRun'.result.mode = "recorded"
          /\ lastRun'.result.response.kind = "result"
          /\ RecordingEnabled']_vars

\* a call made with recording enabled failed while the registry held a
\* record for the test, and the record is still the one held before
C21_Witness ==
    /\ lastRun.phase = "done"
    /\ RecordingEnabled
    /\ lastRun.calls = 1
    /\ lastRun.result.mode = "error"
    /\ lastRun.hit
    /\ lastRun.stored # NoResponse
    /\ \E a \in TestArgs : LegacyGet("search", a) = lastRun.stored

\* the checks of the validator, each on its own, for the result of the last
\* run: the call erred, the response does not conform to the expected
\* schema, an expected keyword is missing, the latency is over the bound
CallErred == lastRun.result.response.kind = "error"

SchemaFails ==
    /\ lastRun.result.expected.schema # None
    /\ \/ lastRun.result.expected.schema \notin SchemaRegistry
       \/ lastRun.result.response.kind # "task"

KeywordMissing ==
    \E k \in Range(lastRun.result.expected.keywords) :
        ~IsSubstring(Lower(k), Lower(JsonDumps(lastRun.result.response)))

LatencyOver ==
    \E m \in lastRun.result.expected.max_latency : lastRun.result.latency > m

\* the reason the validator records for a failing schema check
SchemaReason ==
    IF lastRun.result.expected.schema \in SchemaRegistry
    THEN <<"schema">> ELSE <<"unknown_schema">>

\* C28: the checks are evaluated in the order call error, schema, keywords,
\* latency, and the first failing one alone decides the result: the status
\* is FAIL and the failure list holds the reason of that check only (a call
\* error has its reason in the response and leaves the list empty); with no
\* failing check the status is PASS
C28_FirstFailingCheckOnly ==
    (lastRun.phase = "done" /\ ~lastRun.raised) =>
        IF CallErred
        THEN lastRun.result.status = "FAIL" /\ lastRun.result.failures = <<>>
        ELSE IF SchemaFails
        THEN /\ lastRun.result.status = "FAIL"
             /\ lastRun.result.failures = SchemaReason
        ELSE IF KeywordMissing
        THEN /\ lastRun.result.status = "FAIL"
             /\ lastRun.result.failures = <<"keywords">>
        ELSE IF LatencyOver
        THEN /\ lastRun.result.status = "FAIL"
             /\ lastRun.result.failures = <<"latency">>
        ELSE lastRun.result.status = "PASS" /\ lastRun.result.failures = <<>>

\* a response that misses a keyword and whose latency is over the bound is
\* reported with the keyword failure alone
C28_Witness ==
    /\ lastRun.phase = "done"
    /\ ~lastRun.raised
    /\ lastRun.calls = 1
    /\ ~CallErred
    /\ ~SchemaFails
    /\ KeywordMissing
    /\ LatencyOver
    /\ lastRun.result.status = "FAIL"
    /\ lastRun.result.failures = <<"keywords">>

(***************************************************************************)
(* Claims: parser and graph builder                                        *)
(***************************************************************************)
Sources == { c.source : c \in Range(connections) }
Targets == { c.target : c \in Range(connections) }

\* the nodes that are an edge source and never an edge target
Roots == Sources \ Targets

\* C5 as stated: get_start_node returns the unique node that is a source and
\* never a target, whatever the order of the lines, and the source of the
\* first edge only when no node or several nodes qualify (stated for the
\* workflows that do not write the sentinel as a source)
C5_StartIsUniqueRoot ==
    (status = "built" /\ Complete \notin Sources) =>
        IF Cardinality(Roots) = 1
        THEN start_node_name \in Roots
        ELSE start_node_name = connections[1].source

\* the lines that yield an edge
EdgeYielding == { i \in DOMAIN workflow_spec :
                    workflow_spec[i].form \in {"bare", "edge"} }

\* C5 amended: get_start_node returns the source of the first edge in line
\* order, whether or not that node is also an edge target; in particular
\* edges [(A,-,B),(B,-,C)] give A
C5_StartIsFirstSource ==
    status = "built" =>
        /\ \E i \in EdgeYielding :
              /\ \A j \in EdgeYielding : i <= j
              /\ start_node_name = workflow_spec[i].source
        /\ (/\ Len(connections) = 2
            /\ connections[1].target = connections[2].source)
               => start_node_name = connections[1].source

\* the edges fetch >> check, check >> store were built and the start is fetch
C5_Witness ==
    /\ status = "built"
    /\ connections = <<Connection("fetch", None, "check", NoParams),
                       Connection("check", None, "store", NoParams)>>
    /\ start_node_name = "fetch"

\* C6: get_ordered_nodes returns each distinct node name exactly once and
\* never the sentinel "complete", also when the sentinel is written as a
\* source, and the builder creates no node for the sentinel
C6_SentinelNeverANode ==
    status = "built" =>
        /\ Range(ordered_nodes) = (Sources \cup Targets) \ {Complete}
        /\ \A i, j \in DOMAIN ordered_nodes :
              ordered_nodes[i] = ordered_nodes[j] => i = j
        /\ Complete \notin Range(ordered_nodes)
        /\ Complete \notin DOMAIN nodes

(***************************************************************************)
(* Claims: routing, node contract, termination                             *)
(***************************************************************************)
\* the wired edges out of a node that a routing key selects: the edges
\* labelled exactly with the key, or the edges without action when the key
\* is the empty/default marker
EdgesSelected(from, key) ==
    { c \in Range(connections) :
        /\ c.source = from
        /\ c.target # Complete
        /\ IF c.action = None THEN key \in {"", "default"}
           ELSE c.action = key }

C8_FinalizeStoresResult ==
    /\ phase = "route" =>
          /\ OutputKey(curr) \in DOMAIN shared
          /\ shared[OutputKey(curr)] = exec_res
    /\ finalized # None =>
          /\ PrevOutputKey \in DOMAIN shared
          /\ shared[PrevOutputKey] = OutputKey(finalized)
          /\ OutputKey(finalized) \in DOMAIN shared

\* C8 amended: finalize stores under "{name}_output" the execute-phase
\* result for a tool node and a TransformNode, and the dict {"input":
\* prepare result, "routing_key": execute result} for a ValidationNode and
\* a RoutingNode; every kind sets "_prev_output_key" to that key, so the
\* cursor always names the present output key of the node finalized last
C8_FinalizeStoresOutput ==
    /\ phase = "route" =>
          /\ OutputKey(curr) \in DOMAIN shared
          /\ IF nodes[curr].kind \in {"ValidationNode", "RoutingNode"}
             THEN /\ shared[OutputKey(curr)].t = "dict"
                  /\ DOMAIN shared[OutputKey(curr)].items
                        = {"input", "routing_key"}
                  /\ shared[OutputKey(curr)].items["input"] = prep_res
                  /\ Str(shared[OutputKey(curr)].items["routing_key"])
                        = exec_res
             ELSE shared[OutputKey(curr)] = exec_res
    /\ finalized # None =>
          /\ PrevOutputKey \in DOMAIN shared
          /\ shared[PrevOutputKey] = OutputKey(finalized)
          /\ OutputKey(finalized) \in DOMAIN shared

\* a custom node was finalized after a tool node
C8_Witness ==
    /\ phase = "route"
    /\ Len(trace) = 2
    /\ nodes[trace[1]].kind = "MCPNode"
    /\ nodes[curr].kind # "MCPNode"
    /\ finalized = curr

\* C9: prepare and execute of every node kind leave shared state unchanged:
\* from the start of a node's prepare to the start of its finalize no key is
\* added, removed or rewritten
C9_PrepExecKeepShared ==
    phase \in {"exec", "post"} => shared = sharedAtPrep

\* a tool node that looked up its schema in prepare is about to finalize,
\* with the initial input still in shared state
C9_Witness ==
    /\ phase = "post"
    /\ nodes[curr].discovered_params.known
    /\ InputKey(curr) \in DOMAIN shared

\* the nodes reachable from a set of nodes along wired edges
RECURSIVE ReachWithin(_, _)
ReachWithin(S, k) ==
    IF k = 0 THEN S
    ELSE ReachWithin(S \cup { c.target : c \in { d \in Range(connections) :
                                 d.source \in S /\ d.target # Complete } },
                     k - 1)

\* the wired edges contain no cycle
Acyclic ==
    \A c \in Range(connections) :
        c.target # Complete =>
            c.source \notin ReachWithin({c.target}, Len(ordered_nodes))

\* the run is over
Ended == status \in {"done", "failed"}

\* C10: a run ends normally at the first node whose routing key selects none
\* of its wired edges (edges to the sentinel are not wired); when the wired
\* edges have no cycle a run from the start node runs each node at most once
\* and eventually ends
C10_EndsAtFirstUnmatchedKey ==
    /\ status = "done" =>
          /\ lastHop.from = trace[Len(trace)]
          /\ EdgesSelected(lastHop.from, lastHop.key) = {}
    /\ (lastHop # NoHop /\ EdgesSelected(lastHop.from, lastHop.key) = {})
          => status = "done"
    /\ (status \in {"running", "done", "failed"} /\ Acyclic) =>
          /\ trace[1] = start_node_name
          /\ \A i, j \in DOMAIN trace : trace[i] = trace[j] => i = j

C10_Termination ==
    /\ []C10_EndsAtFirstUnmatchedKey
    /\ (status = "running" /\ Acyclic) ~> Ended

\* a run over two nodes ended at a node that has an edge to the sentinel
C10_Witness ==
    /\ status = "done"
    /\ Acyclic
    /\ Len(trace) = 2
    /\ \E c \in Range(connections) :
          c.source = trace[2] /\ c.target = Complete

(***************************************************************************)
(* Claims: build failure and parameter mapping                             *)
(***************************************************************************)
\* the node names the workflow lines refer to
Referenced ==
    LET conns == ParseWorkflow(workflow_spec)
    IN  ({ c.source : c \in Range(conns) } \cup { c.target : c \in Range(conns) })
            \ {Complete}

\* the name is a custom node class or a tool of the server
Resolvable(name) ==
    IsCustomNode(custom_node_classes, name) \/ name \in ServerTools

\* C11: building a workflow fails before any node executes when a referenced
\* node name cannot be resolved to a node kind; a graph that runs is built
\* completely
C11_BuildFailsFast ==
    /\ (status # "new" /\ \E n \in Referenced : ~Resolvable(n))
          => (status = "invalid" /\ trace = <<>>)
    /\ status \in {"running", "done", "failed"} =>
          /\ DOMAIN nodes = Range(ordered_nodes)
          /\ DOMAIN successors = DOMAIN nodes
          /\ start_node_name \in DOMAIN nodes
          /\ \A c \in Range(connections) :
                /\ c.source \in DOMAIN nodes
                /\ c.target # Complete => c.target \in DOMAIN nodes

\* the current node is a tool node that has finished prep_async on an
\* upstream input that is a mapping
ToolPrepared ==
    /\ status = "running"
    /\ phase = "exec"
    /\ nodes[curr].kind = "MCPNode"
    /\ MCPInput(sharedAtPrep, curr).t = "dict"

\* the upstream mapping of the current node
Upstream == MCPInput(sharedAtPrep, curr).items

\* C14: a tool node with an explicit param list forwards exactly the
\* upstream mapping restricted to the listed keys; listed keys the upstream
\* mapping lacks are omitted and prepare does not fail
C14_ExplicitParamsRestrict ==
    (ToolPrepared /\ nodes[curr].explicit_params # NoParams) =>
        /\ prep_res.t = "dict"
        /\ DOMAIN prep_res.items
              = DOMAIN Upstream \cap Range(nodes[curr].explicit_params)
        /\ \A k \in DOMAIN prep_res.items : prep_res.items[k] = Upstream[k]
        /\ (Len(trace) = 1 /\ initial_input # EmptyFn) =>
              \A k \in Range(nodes[curr].explicit_params) :
                  IF k \in DOMAIN initial_input
                  THEN k \in DOMAIN prep_res.items
                       /\ prep_res.items[k] = initial_input[k]
                  ELSE k \notin DOMAIN prep_res.items

\* the start node has the params [url, limit]; the initial input has url
\* and no limit, and url alone is forwarded
C14_Witness ==
    /\ ToolPrepared
    /\ Len(trace) = 1
    /\ nodes[curr].explicit_params = <<"url", "limit">>
    /\ DOMAIN Upstream = {"url", "id"}
    /\ DOMAIN prep_res.items = {"url"}

\* C15: explicit params override auto-discovery: a tool node with an
\* explicit param list never queries the schema, and what it forwards is
\* what it would forward under every schema and every failed lookup
C15_ExplicitOverridesDiscovery ==
    /\ \A n \in DOMAIN nodes :
          nodes[n].explicit_params # NoParams =>
              /\ nodes[n].queries = 0
              /\ nodes[n].lookup = "none"
              /\ nodes[n].discovered_params = NotDiscovered
    /\ (ToolPrepared /\ nodes[curr].explicit_params # NoParams) =>
          \A found \in MapperDiscoveries :
              MCPPrepResult(Dict(Upstream), AfterDiscovery(nodes[curr], found))
                  = prep_res

\* a node with params [url, limit] forwarded url although the server would
\* have answered with a schema that has neither field
C15_Witness ==
    /\ ToolPrepared
    /\ nodes[curr].explicit_params = <<"url", "limit">>
    /\ "url" \in DOMAIN prep_res.items
    /\ Len(trace) = 3
    /\ MCPPrepResult(Dict(Upstream),
                     AfterDiscovery(nodes[curr],
                                    Schema({"content", "max_links"},
                                           {"content"}))) = prep_res

\* C16: without explicit params a tool node whose schema is known forwards
\* exactly the upstream keys that are schema fields; when there is none it
\* forwards the whole upstream mapping; missing required fields change
\* nothing. Upstream {url, title, content} against required {content},
\* optional {max_links} gives {content}
C16_AutoMapIntersection ==
    (/\ ToolPrepared
     /\ nodes[curr].explicit_params = NoParams
     /\ nodes[curr].discovered_params.known) =>
        LET common == DOMAIN Upstream \cap nodes[curr].discovered_params.all
        IN  /\ prep_res.t = "dict"
            /\ IF common = {} THEN prep_res.items = Upstream
               ELSE /\ DOMAIN prep_res.items = common
                    /\ \A k \in common : prep_res.items[k] = Upstream[k]
            /\ (/\ DOMAIN Upstream = {"url", "title", "content"}
                /\ nodes[curr].discovered_params.all = {"content", "max_links"})
                  => DOMAIN prep_res.items = {"content"}

\* the example: upstream {url, title, content}, schema required {content},
\* optional {max_links}
C16_Witness ==
    /\ ToolPrepared
    /\ nodes[curr].explicit_params = NoParams
    /\ DOMAIN Upstream = {"url", "title", "content"}
    /\ nodes[curr].discovered_params = ParamInfo({"content", "max_links"},
                                                 {"content"})
    /\ DOMAIN prep_res.items = {"content"}

\* the schema lookup of the current prepare failed
LookupFailed ==
    /\ nodes[curr].explicit_params = NoParams
    /\ nodes[curr].lookup \in {"error", "missing", "noschema"}
    /\ ~nodes[curr].discovered_params.known

\* C17: when the schema lookup fails (client error, tool not listed, no
\* schema) prepare raises nothing and forwards the upstream mapping
\* unchanged, and the node goes on to execute
C17_FailedDiscoveryForwardsAll ==
    /\ (ToolPrepared /\ LookupFailed) => prep_res = Dict(Upstream)
    /\ (/\ status = "running"
        /\ phase \in {"exec", "post", "route"}
        /\ nodes[curr].kind = "MCPNode"
        /\ MCPInput(sharedAtPrep, curr).t = "dict"
        /\ nodes[curr].explicit_params = NoParams
        /\ ~nodes[curr].discovered_params.known)
          => /\ nodes[curr].lookup \in {"error", "missing", "noschema"}
             /\ nodes[curr].queries > 0

\* a tool without schema got the whole initial input and went on to finalize
C17_Witness ==
    /\ status = "running"
    /\ phase = "post"
    /\ nodes[curr].kind = "MCPNode"
    /\ LookupFailed
    /\ nodes[curr].lookup = "noschema"
    /\ prep_res = Dict(initial_input)
    /\ DOMAIN initial_input = {"url", "title", "content"}

\* C18: a tool node asks the server for its schema at most once in its
\* lifetime, whether the first request succeeded, failed or did not find
\* the tool
C18_DiscoveryAtMostOnce ==
    \A n \in DOMAIN nodes : nodes[n].queries <= 1

(***************************************************************************)
(* Claims: text of the workflow lines                                      *)
(***************************************************************************)
\* C12: for every line valid under the edge grammar parse_workflow yields
\* exactly one edge, equal to the tuple the line was written from, and
\* writing that tuple back as a line and parsing it again yields the same
\* tuple
C12_EdgeLineRoundTrip ==
    status = "parsed" =>
        \A i \in DOMAIN written :
            written[i].form = "edge" =>
                /\ ParseTextLine(workflow_spec[i]) = <<written[i].tuple>>
                /\ \A c \in Range(ParseTextLine(workflow_spec[i])) :
                      ParseTextLine(WriteLine(c, "plain")) = <<c>>

\* an edge with an action and two params, written with spaces around the
\* commas, was parsed next to a line of another form
C12_Witness ==
    /\ status = "parsed"
    /\ Len(written) = 2
    /\ written[1].form = "edge"
    /\ written[1].tuple.action = <<"k">>
    /\ Len(written[1].tuple.params) = 2
    /\ workflow_spec[1] # WriteLine(written[1].tuple, "plain")
    /\ workflow_spec[1] # WriteLine(written[1].tuple, "tight")
    /\ written[2].form = "other"
    /\ connections = <<written[1].tuple>>

\* the lines of a form the grammar has
RECURSIVE Formed(_)
Formed(ws) ==
    IF ws = <<>> THEN <<>>
    ELSE (IF Head(ws).form = "other" THEN <<>> ELSE <<Head(ws).text>>)
            \o Formed(Tail(ws))

\* C13: parse_workflow never raises; a non-blank line that is neither a bare
\* node name nor an edge contributes no edge, and the edges of the other
\* lines are the same as if that line were absent
C13_OtherLinesDropped ==
    status = "parsed" =>
        /\ \A i \in DOMAIN written :
              written[i].form = "other" => ParseTextLine(workflow_spec[i]) = <<>>
        /\ connections = ParseText(Formed(written))

(***************************************************************************)
(* Claims: run history                                                     *)
(***************************************************************************)
\* C22: the run history is append-only: after n calls of save_run it holds
\* n runs, each run saved so far among them as it was saved, also when two
\* runs have the same spec name and timestamps of the same second
C22_HistoryAppendOnly ==
    /\ Len(ListRuns(MaxRuns)) = Len(saved)
    /\ \A i \in DOMAIN saved : saved[i] \in Range(ListRuns(MaxRuns))

\* C23: the "latest" pointer refers to the run saved by the most recent
\* call of save_run: load_latest_run returns that run, and returns nothing
\* only when no run was saved
C23_LatestIsMostRecent ==
    IF saved = <<>> THEN LoadLatestRun = NoTestRun
    ELSE LoadLatestRun = saved[Len(saved)]

\* three runs were saved, the last under the file name of the one before,
\* and the pointer, once a copy, is a link to the last
C23_Witness ==
    /\ Len(saved) = 3
    /\ RunFileName(saved[3]) = RunFileName(saved[2])
    /\ saved[3].spec_name # saved[2].spec_name
    /\ RunFileName(saved[1]) # RunFileName(saved[2])
    /\ latest.kind = "link"
    /\ LoadLatestRun = saved[3]
    /\ LoadLatestRun # saved[2]

(***************************************************************************)
(* Claims: the batch of the test runner                                    *)
(***************************************************************************)
\* the servers a spec declares, under whichever key holds them
Declared(spec) ==
    IF spec.mcp_servers.kind = "value" THEN spec.mcp_servers.v
    ELSE IF spec.mcp_server.kind = "value" THEN <<spec.mcp_server.v>>
    ELSE <<>>

\* the batch came to its end without being stopped from outside
BatchEnded == batchState \in {"raised", "post_raised"}

\* the call of the pair failed: it timed out or raised
CallFailed(r) == r.out.kind \in {"timeout", "raise"}

\* C25: the batch produces exactly one result for every pair of a declared
\* server and a test case, in order, and the result of a pair whose call
\* timed out or raised is a FAIL
C25_OneResultPerPair ==
    BatchEnded =>
        LET expected == Product(Declared(batchSpec), batchSpec.custom_tests)
        IN  /\ Len(results) = Len(expected)
            /\ \A i \in DOMAIN results :
                  /\ results[i].server_path = expected[i].server_path
                  /\ results[i].test = expected[i].test
                  /\ CallFailed(results[i]) =>
                        results[i].result.status = "FAIL"

\* the spec names its servers under a key that holds them and no test case
\* with mocking enabled carries a null "mock" key
WellKeyed(spec) ==
    /\ ServersOf(spec).kind = "value"
    /\ \A i \in DOMAIN spec.custom_tests :
          ~(/\ spec.custom_tests[i].mock = NoResponse
            /\ Truthy(DictGet(spec.custom_tests[i].use_mocks, cfg.use_mocks)))

\* the same for the specs without null keys: every pair has its result,
\* whatever the calls of the other pairs ended as
C25_OneResultPerPairWhenWellKeyed ==
    (BatchEnded /\ WellKeyed(batchSpec)) => C25_OneResultPerPair

\* C24: a run record is persisted only when every pair of the batch has its
\* result; a batch stopped before that leaves no run record, and each
\* response recorded before the stop is in the registry file
C24_RunRecordOnlyAfterBatch ==
    /\ runFiles # EmptyFn => Len(results) = Len(pairs)
    /\ batchState = "aborted" =>
          /\ runFiles = EmptyFn
          /\ latest = NoLatest
          /\ \A i \in DOMAIN results :
                results[i].result.mode = "recorded" =>
                    /\ mockFile # Absent
                    /\ LegacyMockKey(results[i].test.tool,
                                     results[i].test.args) \in DOMAIN mockFile[1]

\* a batch of four pairs was stopped after two, one of them recorded
C24_Witness ==
    /\ batchState = "aborted"
    /\ Len(pairs) = 4
    /\ Len(results) = 2
    /\ \E i \in DOMAIN results : results[i].result.mode = "recorded"
    /\ mockFile # Absent
    /\ runFiles = EmptyFn

\* C29: a call the server answers with a tool error gives a FAIL result,
\* and the batch goes on with the next pair
C29_ToolErrorFails ==
    \A i \in DOMAIN results :
        results[i].out = ToolErrorPayload =>
            results[i].result.status = "FAIL"

(***************************************************************************)
(* Claims: retry controller                                                *)
(***************************************************************************)
\* the retry_async call is over
RetryOver == retryState \in {"returned", "raised"}

\* the failure is of a kind on the allow-list of the configuration: it is
\* an instance of a listed class
OnAllowList(outcome) ==
    \E c \in retryConfig.retryable_exceptions :
        \/ c = outcome
        \/ c = "OSError" /\ outcome = "ConnectionError"

\* the wait the claim gives for the k-th retry, without jitter
ClaimedWait(k) ==
    LET grown == retryConfig.base_delay
                    * Pow(retryConfig.exponential_base, k - 1)
    IN  IF grown < retryConfig.max_delay THEN grown ELSE retryConfig.max_delay

\* C26: retry_async calls the wrapped function at most max_attempts times
\* and stops at the first success; when every attempt failed with a
\* retryable failure it made exactly max_attempts attempts with
\* max_attempts - 1 waits between them, the k-th being
\* min(base_delay * multiplier^(k-1), max_delay) when jitter is off, and it
\* raised the last failure
C26_BoundedRetryWithBackoff ==
    /\ Len(attempts) <= retryConfig.max_attempts \/ retryState = "idle"
    /\ \A i \in DOMAIN attempts : attempts[i] = Success => i = Len(attempts)
    /\ retryState = "returned" <=>
          (attempts # <<>> /\ attempts[Len(attempts)] = Success)
    /\ (/\ retryState = "raised"
        /\ attempts # <<>>
        /\ \A i \in DOMAIN attempts :
              attempts[i] # "CancelledError" /\ OnAllowList(attempts[i]))
          => /\ Len(attempts) = retryConfig.max_attempts
             /\ Len(waits) = retryConfig.max_attempts - 1
             /\ raisedWith = attempts[Len(attempts)]
    /\ (RetryOver /\ ~retryConfig.jitter) =>
          \A k \in DOMAIN waits : waits[k] = ClaimedWait(k)

\* three attempts with base delay 1 and multiplier 2 failed: the waits
\* were 1 and 2, there was no fourth attempt and the last failure was raised
C26_Witness ==
    /\ retryState = "raised"
    /\ retryConfig.max_attempts = 3
    /\ retryConfig.base_delay = 1
    /\ retryConfig.exponential_base = 2
    /\ ~retryConfig.jitter
    /\ attempts = <<"TimeoutError", "ConnectionError", "OSError">>
    /\ waits = <<1, 2>>
    /\ raisedWith = "OSError"

\* C27: a failure of a kind that is not on the allow-list is raised at
\* once: it is the last attempt, on whichever attempt it occurs, and no
\* wait follows it
C27_NotRetryablePropagates ==
    \A i \in DOMAIN attempts :
        (attempts[i] # Success /\ ~OnAllowList(attempts[i])) =>
            /\ i = Len(attempts)
            /\ retryState = "raised"
            /\ raisedWith = attempts[i]
            /\ Len(waits) = i - 1

\* the second attempt failed with a ValueError after a retried timeout
C27_Witness ==
    /\ retryState = "raised"
    /\ attempts = <<"TimeoutError", "ValueError">>
    /\ retryConfig.max_attempts = 3
    /\ Len(waits) = 1
    /\ raisedWith = "ValueError"


(***************************************************************************)
(* Claims: two processes on one data directory                             *)
(***************************************************************************)
\* a lost update: a mock file exists on disk whose key the index file lacks
LostUpdate ==
    \E p \in DOMAIN files :
        GetMockKey(files[p].category, files[p].name, files[p].arguments)
            \notin DOMAIN IndexOnDisk

\* C31: every write rewrites the index file from the writer's own index,
\* read when the writer was opened: as long as one process only has saved
\* mocks, the index file holds the key of every mock file on disk, and the
\* index file always equals the index of some process
C31_SingleWriterLosesNothing ==
    impl = "json" =>
        /\ Cardinality(writers) <= 1 => ~LostUpdate
        /\ writers # {} => IndexOnDisk \in {index, peerIndex}

\* two processes that interleave their saves reach a lost update
C31_Witness ==
    /\ writers = {"self", "peer"}
    /\ LostUpdate

(***************************************************************************)
(* Claims: mock flags of a validated spec                                  *)
(***************************************************************************)
\* the last test case came from a validated spec and sets no use_mocks:
\* model_dump() gives it the key with the value None
FlagUnset == lastRun.phase = "done" /\ lastRun.flag = None

\* the test case has an inline mock, or it has none (model_dump() gives it
\* the key with the value None) and the registry has a mock for it
Servable ==
    \/ lastRun.mock \notin {MockAbsent, NoResponse}
    \/ lastRun.hit /\ lastRun.mock = NoResponse

\* C32: a test case of a validated spec that sets no use_mocks runs under
\* the global flag: with the global flag on it is served from its inline
\* mock or from the registry and the server is not called
C32_GlobalFlagApplies ==
    (FlagUnset /\ cfg.use_mocks = "True" /\ Servable) =>
        /\ lastRun.calls = 0
        /\ lastRun.result.mode \in {"mock", "replay"}

(***************************************************************************)
(* Claims: status and failure list of a test result                        *)
(***************************************************************************)
\* C33: in every test result the status is FAIL exactly when the failure
\* list is non-empty, and the list never holds more than one reason
C33_FailIffOneReason ==
    (lastRun.phase = "done" /\ ~lastRun.raised) =>
        /\ lastRun.result.status = "FAIL" <=> lastRun.result.failures # <<>>
        /\ Len(lastRun.result.failures) <= 1

\* the part that holds: a result with a reason is a FAIL, a FAIL without a
\* reason is a call error, and there is never more than one reason
C33_ReasonImpliesFail ==
    (lastRun.phase = "done" /\ ~lastRun.raised) =>
        /\ lastRun.result.failures # <<>> => lastRun.result.status = "FAIL"
        /\ (lastRun.result.status = "FAIL" /\ lastRun.result.failures = <<>>)
               => lastRun.result.response.kind = "error"
        /\ Len(lastRun.result.failures) <= 1

(***************************************************************************)
(* Claims: routing out of a tool node                                      *)
(***************************************************************************)
\* the node the last hop left is a tool node
HopFromTool ==
    /\ lastHop.from \in DOMAIN nodes
    /\ nodes[lastHop.from].kind = "MCPNode"

\* the wired edges out of a node: those with an action, those without
ActionEdges(name) ==
    { i \in DOMAIN connections :
        /\ connections[i].source = name
        /\ connections[i].action # None
        /\ connections[i].target # Complete }

PlainEdges(name) ==
    { i \in DOMAIN connections :
        /\ connections[i].source = name
        /\ connections[i].action = None
        /\ connections[i].target # Complete }

ParamEdgesInto(name) ==
    { i \in DOMAIN connections :
        connections[i].target = name /\ connections[i].params # NoParams }

\* the list of the first of them in line order
FirstListInto(name) ==
    connections[CHOOSE i \in ParamEdgesInto(name) :
                    \A j \in ParamEdgesInto(name) : i <= j].params

\* C35: explicit params belong to the target node: a tool node is built
\* with the list of the first edge into it that carries one, it keeps that
\* list and filters its input with it on every execution whichever node ran
\* before, and a node no edge with a list leads into has no explicit params
C35_ParamsOfFirstEdgeIntoNode ==
    status \in {"built", "running", "done", "failed"} =>
        /\ \A n \in DOMAIN nodes :
              nodes[n].kind = "MCPNode" =>
                  nodes[n].explicit_params =
                      IF ParamEdgesInto(n) = {} THEN NoParams
                      ELSE FirstListInto(n)
        /\ (/\ status = "running"
            /\ phase = "exec"
            /\ nodes[curr].kind = "MCPNode"
            /\ ParamEdgesInto(curr) # {}
            /\ MCPInput(shared, curr).t = "dict")
               => prep_res = Dict(Restrict(MCPInput(shared, curr).items,
                                           Range(FirstListInto(curr))))

\* a node with two edges into it that carry different lists is prepared for
\* the second time, after another predecessor than the first time, and the
\* list of the later edge would have given it another input
C35_Witness ==
    /\ status = "running"
    /\ phase = "exec"
    /\ Len(trace) = 3
    /\ trace[3] = curr
    /\ trace[2] = curr
    /\ trace[1] # curr
    /\ \E i, j \in ParamEdgesInto(curr) :
          /\ i < j
          /\ connections[i].source = trace[1]
          /\ connections[j].source = curr
          /\ prep_res # Dict(Restrict(MCPInput(shared, curr).items,
                                      Range(connections[j].params)))

(***************************************************************************)
(* Claims: the initial input of the start node                             *)
(***************************************************************************)
\* the run was started with a non-empty initial input
StartedWithInput ==
    /\ status \in {"running", "done", "failed"}
    /\ initial_input # EmptyFn

\* the start node has been prepared and is about to execute
StartNodePrepared ==
    /\ status = "running"
    /\ phase = "exec"
    /\ curr = start_node_name

\* C36: the initial input stays under the start node's input key for the
\* whole run and prepare reads that key before the previous output: every
\* execution of the start node, a revisit through a cycle included, is
\* prepared from the initial input and not from the output of the node
\* that ran before it
C36_StartNodeAlwaysGetsInitialInput ==
    StartedWithInput =>
        /\ InputKey(start_node_name) \in DOMAIN shared
        /\ shared[InputKey(start_node_name)] = Dict(initial_input)
        /\ StartNodePrepared =>
               prep_res = IF nodes[curr].kind = "MCPNode"
                          THEN MCPPrepResult(Dict(initial_input), nodes[curr])
                          ELSE Dict(initial_input)

\* the start node is prepared again after another node ran and stored an
\* output that is not the initial input
C36_Witness ==
    /\ StartedWithInput
    /\ StartNodePrepared
    /\ Len(trace) = 3
    /\ trace[1] = start_node_name
    /\ trace[2] # start_node_name
    /\ trace[3] = start_node_name
    /\ PrevOutputKey \in DOMAIN shared
    /\ shared[PrevOutputKey] = OutputKey(trace[2])
    /\ shared[OutputKey(trace[2])] # Dict(initial_input)
    /\ prep_res = Dict(initial_input)

(***************************************************************************)
(* Claims: routing key of a ValidationNode with allowed_routes             *)
(***************************************************************************)
\* the node was given a list of allowed routes and finalize has returned
FinalizedWithAllowedRoutes ==
    /\ vrun.phase = "post"
    /\ ChecksRoutes(vnode)

\* C37: the routing key a ValidationNode with allowed_routes returns from
\* finalize is one of allowed_routes or the default_route, whatever the
\* input and whatever validate() did, raising included
C37_RouteWithinAllowedRoutes ==
    FinalizedWithAllowedRoutes =>
        vrun.routing_key \in Range(vnode.allowed_routes.v)
                                \cup {vnode.default_route}

\* the part that holds: when validate() returns, the key is within the list
\* or is the default route
C37_RouteWithinAllowedWhenReturned ==
    (FinalizedWithAllowedRoutes /\ vrun.outcome.kind = "return") =>
        vrun.routing_key \in Range(vnode.allowed_routes.v)
                                \cup {vnode.default_route}

(***************************************************************************)
(* Claims: the configuration passed to retryable()                         *)
(***************************************************************************)
\* C38: a call of a function decorated with retryable(config = C,
\* retryable_exceptions = X) leaves C as it was: the predefined
\* configuration keeps the retryable-failure list it was created with, and
\* a retry_async call made with it uses that list
C38_DecoratorLeavesConfigUnchanged ==
    /\ STANDARD_RETRY = StandardRetry
    /\ STANDARD_RETRY.retryable_exceptions = DefaultRetryable

(***************************************************************************)
(* Claims: clearing one category                                           *)
(***************************************************************************)
\* C39: clear_mocks(category) removes the mocks of that category only: a
\* mock recorded under another category is found after it as before, by
\* has_mock_in_category and by load_mock, with its recorded response
C39_ClearKeepsOtherCategories ==
    [][(/\ impl = "json"
        /\ lastOp'.op = "clear"
        /\ lastOp'.category \in Categories)
           => \A c \in Categories \ {lastOp'.category},
                 t \in Tools, a \in ArgDicts :
                 HasMockInCategory(c, t, a) =>
                     /\ (HasMockInCategory(c, t, a))'
                     /\ (LoadMock(c, t, a))' = LoadMock(c, t, a)]_vars

\* the part that holds: the mock files of the other categories stay on
\* disk as they were
C39_ClearKeepsOtherFiles ==
    [][(/\ impl = "json"
        /\ lastOp'.op = "clear"
        /\ lastOp'.category \in Categories)
           => \A p \in DOMAIN files :
                 p[1] # lastOp'.category =>
                     p \in DOMAIN files' /\ files'[p] = files[p]]_vars

(***************************************************************************)
(* Claims: recording under one key and replaying another                   *)
(***************************************************************************)
\* C40: save_mock for one key leaves what load_mock returns for every other
\* key of the same category and tool (other arguments) as it was, also when
\* the hashes of the two argument dicts coincide
C40_SaveKeepsOtherKeys ==
    [][\A c \in Categories, t \in Tools, a \in ArgDicts :
          (/\ impl = "json"
           /\ lastOp'.op = "save"
           /\ lastOp'.category = c
           /\ lastOp'.tool = t
           /\ ~ArgsEqual(a, lastOp'.args))
              => (LoadMock(c, t, a))' = LoadMock(c, t, a)]_vars

\* the part that holds: the other keys are kept when the hashes differ
C40_SaveKeepsKeysOfOtherHash ==
    [][\A c \in Categories, t \in Tools, a \in ArgDicts :
          (/\ impl = "json"
           /\ lastOp'.op = "save"
           /\ lastOp'.category = c
           /\ lastOp'.tool = t
           /\ HashArgs(a) # HashArgs(lastOp'.args))
              => (LoadMock(c, t, a))' = LoadMock(c, t, a)]_vars

=============================================================================
